---- MODULE Spec2Model ----
(***************************************************************************)
(* Real-time synchronisation core of the paper-trading client.             *)
(*                                                                         *)
(*   market channel : useTradingStore  (stores/trading-store.ts)           *)
(*   agent channel  : useAgentWebSocket (hooks/useAgentWebSocket)          *)
(*                                                                         *)
(* The browser is the environment: it resolves token promises, opens and   *)
(* closes sockets and fires timers, one task at a time (single-threaded    *)
(* event loop), in any order.                                              *)
(***************************************************************************)
EXTENDS Integers, Sequences, FiniteSets, TLC

----------------------------------------------------------------------------
(* Bounds of the model *)

\* connect attempts of the market store (a token promise, then its
\* WebSocket, then the reconnect timer its close schedules) alive at once
MaxAttempts == 2

----------------------------------------------------------------------------
(* Values *)

\* `null` / `undefined` for a stock code
NoCode == "none"

\* an optional value is the set of its at most one value: `null`, `undefined`
\* and an absent JSON field are the empty set
Null == {}

Some(v) == {v}

The(o) == CHOOSE v \in o : TRUE

\* o ?? d
OrElse(o, d) == IF o = Null THEN d ELSE The(o)

\* instrument codes the user may focus: one of the listed universe and one
\* outside of it (a holding of an instrument that is not listed)
Codes == {"005930", "035720"}

\* the lists the page passes as allCodes (stocks.map(s => s.code))
BulkLists == {<<"005930", "000660">>}

\* outcomes of the token promise: a token, null, or a rejection
TokenOutcomes == {"token", "null", "reject"}

\* An attempt is "TOKEN" while tokenGetter() is unresolved; afterwards it is
\* the WebSocket constructed with the token, in its readyState; "none" is a
\* free slot (no attempt, or a socket whose close event has been handled).
AttemptStates == {"none", "TOKEN", "CONNECTING", "OPEN", "CLOSING"}

SockIds == 1..MaxAttempts

\* the history variables a specification may keep
Histories == {"wanted", "announced", "disconnected", "settled"}

----------------------------------------------------------------------------
(* State of the market channel *)

VARIABLES
  selectedStock,     \* selectedStock?.code, NoCode when null
  wsConnected,       \* wsConnected
  ws,                \* _ws: id of the stored socket, 0 when null
  reconnectTimerM,   \* _reconnectTimer: id of the stored timer, 0 when null
  intentionalClose,  \* _intentionalClose
  allCodes,          \* _allCodes
  tokenGetter,       \* _tokenGetter # null
  sockets,           \* the attempts: state, the subscribeCodes the callbacks
                     \* closed over and, for an attempt started by the timer
                     \* of an unintentional close, the code list desired at
                     \* that close (history: a set holding that list,
                     \* empty if no code was desired then and for any
                     \* other attempt)
  timers,            \* setTimeout callbacks scheduled and not fired/cleared,
                     \* named after the socket whose onclose scheduled them
  timerWanted,       \* per timer scheduled by an unintentional close: the
                     \* code list desired at that close (history, as above;
                     \* kept when "wanted" is recorded)
  announced,         \* the codes announced on the socket _ws refers to
                     \* (history; kept when "announced" is recorded)
  disconnected,      \* disconnectWs was called, and neither connectWs nor
                     \* setSelectedStock since (history; kept when
                     \* "disconnected" is recorded)
  recorded,          \* which of the three history variables above a
                     \* behaviour keeps (fixed by the specification; one
                     \* not kept stays at its initial value)
  sent,              \* frames sent by the handler that ran last (history)
  lastOp             \* the handler that ran last, with the arguments of a
                     \* connectWs call (history)

mvars == <<selectedStock, wsConnected, ws, reconnectTimerM, intentionalClose,
           allCodes, tokenGetter, sockets, timers, timerWanted, announced,
           disconnected, recorded, sent, lastOp>>

\* the refs of the agent hook and the store flag it drives
VARIABLES
  effect,            \* the mount effect: "initial", "on" (set up) or "off"
                     \* (torn down for good: the component is gone)
  mountedRef,        \* mountedRef.current
  wsRef,             \* wsRef.current: socket id, 0 when null, or Stale
  reconnectDelay,    \* reconnectDelay.current
  reconnectTimer,    \* reconnectTimer.current: timer id, 0 when null, Stale
  pingTimer,         \* pingTimer.current: interval id, 0 when null, Stale
  agentConnected,    \* useAgentStore wsConnected
  ctorOk,            \* new WebSocket(url) succeeds in this deployment
  agentSockets,      \* the attempts: "TOKEN" while getToken() is awaited,
                     \* then the readyState of the socket
  agentTimers,       \* setTimeout(connect, delay) scheduled, not fired/cleared
  timerDelay,        \* the delay each pending timer was scheduled with
  pings,             \* setInterval callbacks active on a socket not closed
  closes,            \* consecutive closes since a socket last opened (history)
  timerCloses,       \* per timer scheduled on a close: closes then (history)
  agentLastOp        \* the handler that ran last (history)

avars == <<effect, mountedRef, wsRef, reconnectDelay, reconnectTimer,
           pingTimer, agentConnected, ctorOk, agentSockets, agentTimers,
           timerDelay, pings, closes, timerCloses, agentLastOp>>

\* the data snapshots of the market store
VARIABLES
  stocks,            \* stocks: the instrument list
  currentPrice,      \* currentPrice: the focused instrument's price, or Null
  orderbook,         \* orderbook
  account,           \* account, or Null
  holdings           \* holdings

dvars == <<stocks, currentPrice, orderbook, account, holdings>>

\* the conversations of the agent store
VARIABLES
  liveConversations, \* liveConversations: the Map, as a function from the
                     \* ids it holds to the conversation stored under each
  activeDebateId,    \* activeDebateId, or Null
  lastEvent,         \* the frame or event the handler that ran last was
                     \* given (history)
  arrived            \* per conversation id: the turn messages handled since
                     \* the last start event for the id, Null before the
                     \* first start event (history)

svars == <<liveConversations, activeDebateId, lastEvent, arrived>>

\* the trading page
VARIABLES
  pageMounted,       \* the page is mounted: its effects have run once
  apiReady,          \* apiReady
  timeframe,         \* timeframe
  selectedCodeRef,   \* selectedCodeRef.current
  candleData,        \* candleData: Null for [], or the candles of a response
  candleError,       \* candleError
  fetches,           \* the REST calls in flight, in the order they started
  lastFetch          \* the call whose promise settled last, as it was when
                     \* it settled, with what it settled to (history)

pvars == <<pageMounted, apiReady, timeframe, selectedCodeRef, candleData,
           candleError, fetches, lastFetch>>

\* the Orderbook component
VARIABLES
  askLevels,         \* the prop asks
  bidLevels,         \* the prop bids
  asksWithAcc,       \* asksWithAcc, Null before the first render
  bidsWithAcc        \* bidsWithAcc, Null before the first render

ovars == <<askLevels, bidLevels, asksWithAcc, bidsWithAcc>>

\* the OrderPanel component
VARIABLES
  orderPrice,        \* the state price
  panelPrice,        \* the prop currentPrice
  ticks              \* the steps of the price, newest last

kvars == <<orderPrice, panelPrice, ticks>>

\* the build and the page the channels resolve their URL from
VARIABLES
  env,               \* process.env: NEXT_PUBLIC_WS_URL and NEXT_PUBLIC_API_URL
  location,          \* window.location: protocol, hostname, port
  marketBase,        \* wsBase of connectWs, Null before it is resolved
  agentBase          \* wsBase of the hook's connect, Null before it is resolved

uvars == <<env, location, marketBase, agentBase>>

\* the backend's feed of agent events
VARIABLES
  published,         \* how many events of the feed the backend has sent
  inbox              \* per agent socket: the frames received and not yet
                     \* handled, oldest first

bvars == <<published, inbox>>

\* the components beside the page
wvars == <<ovars, kvars, uvars, bvars>>

vars == <<mvars, avars, dvars, svars, pvars, wvars>>

\* The store as one value, so that handlers can call one another
MState ==
  [selectedStock |-> selectedStock, wsConnected |-> wsConnected, ws |-> ws,
   reconnectTimer |-> reconnectTimerM, intentionalClose |-> intentionalClose,
   allCodes |-> allCodes, tokenGetter |-> tokenGetter, sockets |-> sockets,
   timers |-> timers, timerWanted |-> timerWanted, announced |-> announced,
   sent |-> <<>>, overflow |-> FALSE]

MSet(st) ==
  /\ ~st.overflow
  /\ selectedStock' = st.selectedStock
  /\ wsConnected' = st.wsConnected
  /\ ws' = st.ws
  /\ reconnectTimerM' = st.reconnectTimer
  /\ intentionalClose' = st.intentionalClose
  /\ allCodes' = st.allCodes
  /\ tokenGetter' = st.tokenGetter
  /\ sockets' = st.sockets
  /\ timers' = st.timers
  /\ timerWanted' = st.timerWanted
  /\ announced' = st.announced
  /\ sent' = st.sent
  /\ UNCHANGED <<recorded, avars>>

\* a handler that leaves the data snapshots alone
MApply(st) == MSet(st) /\ UNCHANGED <<dvars, svars, pvars, wvars>>

NoSocket == [state |-> "none", codes |-> <<>>, wanted |-> {}]

\* the handler that ran last
Op(name) == [op |-> name, code |-> NoCode, codes |-> <<>>]

Range(seq) == {seq[i] : i \in 1..Len(seq)}

MInit ==
  /\ selectedStock = NoCode
  /\ wsConnected = FALSE
  /\ ws = 0
  /\ reconnectTimerM = 0
  /\ intentionalClose = FALSE
  /\ allCodes = <<>>
  /\ tokenGetter = FALSE
  /\ sockets = [s \in SockIds |-> NoSocket]
  /\ timers = {}
  /\ timerWanted = [s \in SockIds |-> {}]
  /\ announced = {}
  /\ disconnected = FALSE
  /\ recorded \in SUBSET Histories
  /\ sent = <<>>
  /\ lastOp = Op("init")

\* the data of the market store after create()
DInit ==
  /\ stocks = <<>>
  /\ currentPrice = Null
  /\ orderbook = [asks |-> <<>>, bids |-> <<>>]
  /\ account = Null
  /\ holdings = <<>>

----------------------------------------------------------------------------
(* Browser primitives *)

\* slots free for a new attempt
FreeSlots(st) == {s \in SockIds : st.sockets[s].state = "none" /\ s \notin st.timers}

\* the slot the next attempt takes
NextSlot(st) == CHOOSE s \in FreeSlots(st) : \A r \in FreeSlots(st) : s <= r

\* a new attempt: tokenGetter() is called; without a free slot the handler
\* is outside the bound of the model (overflow)
StartAttempt(st, subscribeCodes, wanted) ==
  IF FreeSlots(st) = {}
  THEN [st EXCEPT !.overflow = TRUE]
  ELSE [st EXCEPT !.sockets[NextSlot(st)] =
                     [state |-> "TOKEN", codes |-> subscribeCodes,
                      wanted |-> wanted]]

\* WebSocket.close(): CONNECTING/OPEN -> CLOSING, otherwise nothing; the
\* close event comes in a later task
WsClose(st, s) ==
  IF st.sockets[s].state \in {"CONNECTING", "OPEN"}
  THEN [st EXCEPT !.sockets[s].state = "CLOSING"]
  ELSE st

\* WebSocket.send({action: "subscribe", stock_codes: codes})
WsSend(st, s, codes) ==
  [st EXCEPT !.sent = Append(@, [to |-> s, codes |-> codes]),
             !.announced = IF "announced" \in recorded
                           THEN @ \cup Range(codes) ELSE @]

\* clearTimeout(handle); set({ _reconnectTimer: null })
ClearReconnectTimer(st) ==
  IF st.reconnectTimer # 0
  THEN [st EXCEPT !.timers = @ \ {st.reconnectTimer},
                  !.timerWanted[st.reconnectTimer] = {},
                  !.reconnectTimer = 0]
  ELSE st

\* the code set desired: the stored bulk set, or the focused code when no
\* bulk set is stored
Desired(st) ==
  IF st.allCodes # <<>> THEN st.allCodes
  ELSE IF st.selectedStock # NoCode THEN <<st.selectedStock>> ELSE <<>>

\* subscribeCodes of connectWs (lines 135-137)
SubscribeCodes(st, stockCode) ==
  IF Len(st.allCodes) > 0 THEN st.allCodes
  ELSE IF stockCode # NoCode THEN <<stockCode>> ELSE <<>>

----------------------------------------------------------------------------
(* Handlers of the market store *)

\* connectWs lines 157-165: drop the previous handle, ask for a token
ConnectWsFresh(st, subscribeCodes, wanted) ==
  LET prev == st.ws
      st1 == IF prev # 0
             THEN [WsClose([st EXCEPT !.intentionalClose = TRUE], prev)
                     EXCEPT !.ws = 0, !.announced = {}]
             ELSE st
  IN StartAttempt(st1, subscribeCodes, wanted)

\* connectWs without its readyState test: it replaces an OPEN socket too
ConnectWsAlwaysFresh(st, subscribeCodes, wanted) ==
  ConnectWsFresh(ClearReconnectTimer(st), subscribeCodes, wanted)

\* connectWs lines 142-165
ConnectWsOpenOrFresh(st, subscribeCodes, wanted) ==
  LET st2 == ClearReconnectTimer(st)
      prev == st2.ws
  IN IF prev # 0 /\ st2.sockets[prev].state = "OPEN"
     THEN WsSend(st2, prev, subscribeCodes)
     ELSE ConnectWsFresh(st2, subscribeCodes, wanted)

\* connectWs(stockCode, allCodes); wanted: history, see sockets
ConnectWs(st, stockCode, codes, wanted) ==
  IF ~st.tokenGetter THEN st
  ELSE LET st1 == IF Len(codes) > 0 THEN [st EXCEPT !.allCodes = codes] ELSE st
           subscribeCodes == SubscribeCodes(st1, stockCode)
       IN IF Len(subscribeCodes) = 0 THEN st1
          ELSE ConnectWsOpenOrFresh(st1, subscribeCodes, wanted)

\* a disconnectWs that marks the close as intentional whether or not it
\* holds a socket
DisconnectWsMarking(st) ==
  LET st1 == [ClearReconnectTimer(st) EXCEPT !.intentionalClose = TRUE]
      s == st1.ws
  IN IF s # 0
     THEN [WsClose(st1, s)
             EXCEPT !.ws = 0, !.announced = {}, !.wsConnected = FALSE]
     ELSE st1

\* disconnectWs()
DisconnectWs(st) ==
  LET st1 == ClearReconnectTimer(st)
      s == st1.ws
  IN IF s # 0
     THEN [WsClose([st1 EXCEPT !.intentionalClose = TRUE], s)
             EXCEPT !.ws = 0, !.announced = {}, !.wsConnected = FALSE]
     ELSE st1

\* a setSelectedStock that follows one instrument: it subscribes to the new
\* code alone and disconnects when the selection is cleared
SetSelectedStockPerInstrument(st, code) ==
  LET prev == st.selectedStock
      st1 == [st EXCEPT !.selectedStock = code]
  IN IF code # NoCode /\ code # prev
     THEN IF st1.ws # 0 /\ st1.sockets[st1.ws].state = "OPEN"
          THEN WsSend(st1, st1.ws, <<code>>)
          ELSE ConnectWs(DisconnectWs(st1), code, <<>>, {})
     ELSE IF code = NoCode THEN DisconnectWs(st1) ELSE st1

\* setSelectedStock(stock)
SetSelectedStock(st, code) ==
  LET prev == st.selectedStock
      st1 == [st EXCEPT !.selectedStock = code]
  IN IF code # NoCode /\ code # prev
     THEN IF st1.ws = 0 \/ st1.sockets[st1.ws].state # "OPEN"
          THEN ConnectWs(st1, code, st1.allCodes, {})
          ELSE st1
     ELSE st1

\* tokenGetter().then(...): the promise of attempt s resolves with a token
\* and its socket is constructed (lines 166-299)
TokenThen(st, s) ==
  [st EXCEPT !.sockets[s].state = "CONNECTING",
             !.ws = s,
             !.announced = {},
             !.intentionalClose = FALSE]

\* an abandoning that retries after a delay
TokenNoneRetrying(st, s) ==
  [st EXCEPT !.sockets[s] = NoSocket,
             !.timers = @ \cup {s},
             !.reconnectTimer = s]

\* the promise resolves with null or rejects (lines 166, 303-305)
TokenNone(st, s) == [st EXCEPT !.sockets[s] = NoSocket]

\* ws.onopen of socket s
OnOpen(st, s) ==
  WsSend([st EXCEPT !.sockets[s].state = "OPEN",
                    !.wsConnected = TRUE,
                    !.ws = s,
                    !.announced = {},
                    !.intentionalClose = FALSE],
         s, st.sockets[s].codes)

\* ws.onclose of socket s (ws.onerror runs before it in the same task and
\* calls close() on the socket that is CLOSED by then: nothing).
\* dropped: the close was not asked for by the client.
OnClose(st, s, dropped) ==
  LET st1 == [st EXCEPT !.sockets[s] = NoSocket,
                        !.wsConnected = FALSE,
                        !.ws = 0,
                        !.announced = {}]
      st2 == IF ~st1.intentionalClose
             THEN [st1 EXCEPT !.timers = @ \cup {s},
                              !.timerWanted[s] =
                                 IF dropped /\ "wanted" \in recorded
                                 THEN {Desired(st)} \ {<<>>} ELSE {},
                              !.reconnectTimer = s]
             ELSE st1
  IN [st2 EXCEPT !.intentionalClose = FALSE]

\* the reconnect timer's callback (lines 281-289)
OnReconnectTimer(st, t) ==
  LET st1 == [st EXCEPT !.timers = @ \ {t},
                        !.timerWanted[t] = {},
                        !.reconnectTimer = 0]
      codes == st1.allCodes
      current == st1.selectedStock
  IN IF current # NoCode \/ Len(codes) > 0
     THEN ConnectWs(st1, current, codes, st.timerWanted[t])
     ELSE st1

----------------------------------------------------------------------------
(* Data of the market store.  Prices are won; a rate is kept in hundredths  *)
(* of a percent, the integer Math.round(ratio * 10000) of the source (the   *)
(* source divides it by 100).                                               *)

\* what the page loads over REST
\* changePrice and changeRate are optional fields of a Stock
StockOf(code, price, changePrice, changeRate) ==
  [code |-> code, currentPrice |-> price, changePrice |-> changePrice,
   changeRate |-> changeRate]

Stock(code, price) == StockOf(code, price, Some(0), Some(0))

StockLists == {<<Stock("005930", 70000), Stock("000660", 120000)>>}

\* Math.round(n / d * 10000), d > 0: the nearest integer, a half upwards
RoundRate(n, d) == (2 * n * 10000 + d) \div (2 * d)

Holding(code, quantity, avgPrice, price) ==
  [stockCode |-> code, quantity |-> quantity, avgPrice |-> avgPrice,
   currentPrice |-> price, totalValue |-> price * quantity,
   profit |-> price * quantity - avgPrice * quantity,
   profitRate |-> RoundRate(price * quantity - avgPrice * quantity,
                            avgPrice * quantity)]

HoldingLists ==
  {<<Holding("005930", 10, 68000, 70000), Holding("035720", 5, 50000, 50000)>>}

Accounts ==
  {[balance |-> 1000000, initialCapital |-> 2000000, totalAsset |-> 1950000,
    totalProfit |-> -50000, totalProfitRate |-> -250]}

\* the payload of a frame: the fields a frame may leave out are optional
Tick(code, price) ==
  [stock_code |-> code, price |-> price, change |-> Null,
   change_rate |-> Null, volume |-> Null, high |-> Null, low |-> Null,
   open |-> Null, time |-> Null, asks |-> Null, bids |-> Null]

\* a text frame: not JSON, or the JSON text of a value (null, or a message)
NotJson == [json |-> FALSE, value |-> Null]

Json(value) == [json |-> TRUE, value |-> value]

Message(type, data) == [type |-> type, data |-> data]

MarketFrames ==
  {NotJson,
   Json(Null),
   Json(Some(Message("price_update",
        Some([Tick("005930", 71000) EXCEPT
                !.change = Some(1000), !.change_rate = Some(143),
                !.volume = Some(500), !.high = Some(71500),
                !.low = Some(69500), !.open = Some(70000),
                !.time = Some("09:00:01")])))),
   Json(Some(Message("orderbook_update",
        Some([Tick("005930", 0) EXCEPT
                !.asks = Some(<<[price |-> 71100, volume |-> 3]>>),
                !.bids = Some(<<[price |-> 70900, volume |-> 4]>>)])))),
   Json(Some(Message("subscribed", Null)))}

\* the data of the store as one value, with the focus the handler reads;
\* threw: an exception is propagating
DState ==
  [selectedStock |-> selectedStock, stocks |-> stocks,
   currentPrice |-> currentPrice, orderbook |-> orderbook,
   account |-> account, holdings |-> holdings, threw |-> FALSE]

DApply(st) ==
  /\ stocks' = st.stocks
  /\ currentPrice' = st.currentPrice
  /\ orderbook' = st.orderbook
  /\ account' = st.account
  /\ holdings' = st.holdings

\* findIndex: the first index whose element has the code, 0 for -1
FindIndex(list, field, code) ==
  IF \E i \in 1..Len(list) : list[i][field] = code
  THEN CHOOSE i \in 1..Len(list) :
         /\ list[i][field] = code
         /\ \A j \in 1..(i - 1) : list[j][field] # code
  ELSE 0

RECURSIVE SumTotalValue(_)
SumTotalValue(list) ==
  IF list = <<>> THEN 0 ELSE Head(list).totalValue + SumTotalValue(Tail(list))

\* the price as pushed, whatever the focus
PushedPrice(d) ==
  [code |-> d.stock_code,
   price |-> d.price,
   change |-> OrElse(d.change, 0),
   changeRate |-> OrElse(d.change_rate, 0),
   volume |-> OrElse(d.volume, 0),
   high |-> OrElse(d.high, d.price),
   low |-> OrElse(d.low, d.price),
   open |-> OrElse(d.open, d.price),
   prevClose |-> d.price - OrElse(d.change, 0),
   timestamp |-> OrElse(d.time, "now")]

\* a handler that stores the price of any instrument pushed
UpdateCurrentPriceAnyCode(st, d) ==
  [st EXCEPT !.currentPrice = Some(PushedPrice(d))]

\* a handler that keeps the previous close it holds
UpdateCurrentPriceKeepingClose(st, d) ==
  IF st.selectedStock # NoCode /\ d.stock_code = st.selectedStock
  THEN [st EXCEPT !.currentPrice =
          Some([PushedPrice(d) EXCEPT
                  !.prevClose = IF st.currentPrice # Null
                                THEN The(st.currentPrice).prevClose ELSE @])]
  ELSE st

\* 1) the focused instrument's price (lines 185-203)
UpdateCurrentPrice(st, d) ==
  IF st.selectedStock # NoCode /\ d.stock_code = st.selectedStock
  THEN [st EXCEPT !.currentPrice =
          Some([code |-> d.stock_code,
                price |-> d.price,
                change |-> OrElse(d.change, 0),
                changeRate |-> OrElse(d.change_rate, 0),
                volume |-> OrElse(d.volume, 0),
                high |-> OrElse(d.high, d.price),
                low |-> OrElse(d.low, d.price),
                open |-> OrElse(d.open, d.price),
                prevClose |-> d.price - OrElse(d.change, 0),
                timestamp |-> OrElse(d.time, "now")])]
  ELSE st

\* 2) the instrument list (lines 206-219)
UpdateStocks(st, d) ==
  LET idx == FindIndex(st.stocks, "code", d.stock_code)
  IN IF idx > 0
     THEN [st EXCEPT !.stocks[idx] =
             [@ EXCEPT !.currentPrice = d.price,
                       !.changePrice = IF d.change # Null THEN d.change ELSE @,
                       !.changeRate = IF d.change_rate # Null
                                      THEN d.change_rate ELSE @]]
     ELSE st

\* the account's totals over the holdings (lines 244-260)
UpdateAccount(st) ==
  IF st.account # Null
  THEN LET acct == The(st.account)
           newTotalAsset == acct.balance + SumTotalValue(st.holdings)
           newAccountProfit == newTotalAsset - acct.initialCapital
       IN [st EXCEPT !.account =
             Some([acct EXCEPT
                     !.totalAsset = newTotalAsset,
                     !.totalProfit = newAccountProfit,
                     !.totalProfitRate =
                        IF acct.initialCapital > 0
                        THEN RoundRate(newAccountProfit, acct.initialCapital)
                        ELSE 0])]
  ELSE st

\* a handler that reprices the holding and leaves its value as it was
UpdateHoldingsPriceOnly(st, d) ==
  LET hIdx == FindIndex(st.holdings, "stockCode", d.stock_code)
  IN IF hIdx > 0
     THEN UpdateAccount([st EXCEPT !.holdings[hIdx].currentPrice = d.price])
     ELSE st

\* 3) the holding of the instrument, then the account (lines 222-262)
UpdateHoldings(st, d) ==
  LET hIdx == FindIndex(st.holdings, "stockCode", d.stock_code)
  IN IF hIdx > 0
     THEN LET h == st.holdings[hIdx]
              newTotalValue == d.price * h.quantity
              cost == h.avgPrice * h.quantity
              newProfit == newTotalValue - cost
          IN UpdateAccount(
               [st EXCEPT !.holdings[hIdx] =
                  [h EXCEPT !.currentPrice = d.price,
                            !.totalValue = newTotalValue,
                            !.profit = newProfit,
                            !.profitRate = IF cost > 0
                                           THEN RoundRate(newProfit, cost)
                                           ELSE 0]])
     ELSE st

\* data.type === "price_update"
PriceUpdate(st, d) == UpdateHoldings(UpdateStocks(UpdateCurrentPrice(st, d), d), d)

\* a handler that stores the order book of any instrument pushed
OrderbookUpdateAnyCode(st, d) ==
  [st EXCEPT !.orderbook = [asks |-> OrElse(d.asks, <<>>),
                            bids |-> OrElse(d.bids, <<>>)]]

\* data.type === "orderbook_update"
OrderbookUpdate(st, d) ==
  IF st.selectedStock # NoCode /\ d.stock_code = st.selectedStock
  THEN [st EXCEPT !.orderbook = [asks |-> OrElse(d.asks, <<>>),
                                 bids |-> OrElse(d.bids, <<>>)]]
  ELSE st

\* JSON.parse(event.data): throws on a text that is not JSON
JsonParse(st, frame) == IF frame.json THEN st ELSE [st EXCEPT !.threw = TRUE]

\* the try block of ws.onmessage; reading `.type` of null throws
OnMessageTry(st, frame) ==
  LET st1 == JsonParse(st, frame)
  IN IF st1.threw THEN st1
     ELSE IF frame.value = Null THEN [st1 EXCEPT !.threw = TRUE]
     ELSE LET data == The(frame.value)
          IN IF data.type = "price_update" /\ data.data # Null
             THEN PriceUpdate(st1, The(data.data))
             ELSE IF data.type = "orderbook_update" /\ data.data # Null
             THEN OrderbookUpdate(st1, The(data.data))
             ELSE st1

\* a handler without its catch
Uncaught(st) == st

\* catch { }
Catch(st) == [st EXCEPT !.threw = FALSE]

\* ws.onmessage
OnMessage(st, frame) == Catch(OnMessageTry(st, frame))

\* what the handler that ran last was given, and whether an exception left it
Given(op, event, threw) == Some([op |-> op, event |-> event, escaped |-> threw])

----------------------------------------------------------------------------
(* Actions of the market channel *)

\* setTokenGetter(getToken): the page's only call passes Clerk's getToken
MSetTokenGetter ==
  /\ lastOp' = Op("setTokenGetter")
  /\ MApply([MState EXCEPT !.tokenGetter = TRUE])
  /\ UNCHANGED disconnected

MConnectWs ==
  \E code \in Codes \cup {NoCode}, codes \in BulkLists \cup {<<>>} :
    /\ lastOp' = [op |-> "connectWs", code |-> code, codes |-> codes]
    /\ MApply(ConnectWs(MState, code, codes, {}))
    /\ disconnected' = FALSE

MSetSelectedStock ==
  \E code \in Codes \cup {NoCode} :
    /\ lastOp' = Op("setSelectedStock")
    /\ MApply(SetSelectedStock(MState, code))
    /\ disconnected' = FALSE

MDisconnectWs ==
  /\ lastOp' = Op("disconnectWs")
  /\ MApply(DisconnectWs(MState))
  /\ disconnected' = ("disconnected" \in recorded)

\* the token promise of attempt s resolves with a token
MTokenArrives(s) ==
  /\ sockets[s].state = "TOKEN"
  /\ lastOp' = Op("token")
  /\ MApply(TokenThen(MState, s))
  /\ UNCHANGED disconnected

\* the token promise of attempt s resolves with null, or rejects
MTokenFails(s) ==
  /\ sockets[s].state = "TOKEN"
  /\ lastOp' = Op("notoken")
  /\ MApply(TokenNone(MState, s))
  /\ UNCHANGED disconnected

MTokenResolves ==
  \E s \in SockIds, outcome \in TokenOutcomes :
    IF outcome = "token" THEN MTokenArrives(s) ELSE MTokenFails(s)

MSocketOpens ==
  \E s \in SockIds :
    /\ sockets[s].state = "CONNECTING"
    /\ lastOp' = Op("open")
    /\ MApply(OnOpen(MState, s))
    /\ UNCHANGED disconnected

\* the connection fails or is lost: error and close events
MSocketDrops ==
  \E s \in SockIds :
    /\ sockets[s].state \in {"CONNECTING", "OPEN"}
    /\ lastOp' = Op("drop")
    /\ MApply(OnClose(MState, s, TRUE))
    /\ UNCHANGED disconnected

\* the close the client asked for completes: close event
MSocketClosed ==
  \E s \in SockIds :
    /\ sockets[s].state = "CLOSING"
    /\ lastOp' = Op("closed")
    /\ MApply(OnClose(MState, s, FALSE))
    /\ UNCHANGED disconnected

\* the reconnect timer t fires
MTimerFire(t) ==
  /\ t \in timers
  /\ lastOp' = Op("timer")
  /\ MApply(OnReconnectTimer(MState, t))
  /\ UNCHANGED disconnected

MTimerFires == \E t \in SockIds : MTimerFire(t)

\* a frame arrives on a socket that is OPEN
MMessage ==
  \E s \in SockIds, frame \in MarketFrames :
    /\ sockets[s].state = "OPEN"
    /\ lastOp' = Op("message")
    /\ MSet(MState)
    /\ DApply(OnMessage(DState, frame))
    /\ lastEvent' = Given("message", frame, OnMessage(DState, frame).threw)
    /\ UNCHANGED <<disconnected, liveConversations, activeDebateId, arrived,
                   pvars, wvars>>

\* setStocks(list), setHoldings(list), setAccount(account): what the page
\* has fetched over REST
MSetStocks ==
  \E list \in StockLists :
    /\ lastOp' = Op("setStocks")
    /\ MSet(MState)
    /\ DApply([DState EXCEPT !.stocks = list])
    /\ UNCHANGED <<disconnected, svars, pvars, wvars>>

MSetHoldings ==
  \E list \in HoldingLists :
    /\ lastOp' = Op("setHoldings")
    /\ MSet(MState)
    /\ DApply([DState EXCEPT !.holdings = list])
    /\ UNCHANGED <<disconnected, svars, pvars, wvars>>

MSetAccount ==
  \E acct \in Accounts :
    /\ lastOp' = Op("setAccount")
    /\ MSet(MState)
    /\ DApply([DState EXCEPT !.account = Some(acct)])
    /\ UNCHANGED <<disconnected, svars, pvars, wvars>>

MDataNext ==
  \/ MMessage
  \/ MSetStocks
  \/ MSetHoldings
  \/ MSetAccount

MNext ==
  \/ MSetTokenGetter
  \/ MConnectWs
  \/ MSetSelectedStock
  \/ MDisconnectWs
  \/ MTokenResolves
  \/ MSocketOpens
  \/ MSocketDrops
  \/ MSocketClosed
  \/ MTimerFires

\* the market channel while the token provider returns a token every time
\* and disconnectWs is not called
MTokenAlwaysArrives == \E s \in SockIds : MTokenArrives(s)

MLiveNext ==
  \/ MSetTokenGetter
  \/ MConnectWs
  \/ MSetSelectedStock
  \/ MTokenAlwaysArrives
  \/ MSocketOpens
  \/ MSocketDrops
  \/ MSocketClosed
  \/ MTimerFires

\* a timer that is set fires; a token promise settles
MFairness ==
  /\ \A t \in SockIds : WF_vars(MTimerFire(t))
  /\ \A s \in SockIds : WF_vars(MTokenArrives(s))

----------------------------------------------------------------------------
(* State of the agent channel: the refs of one useAgentWebSocket instance  *)
(* and the store flag it drives.  The effect may be torn down and set up   *)
(* again on the same instance (dependency change, StrictMode), so the refs *)
(* survive an unmount.                                                     *)

\* connect attempts of the agent hook alive at once
MaxAgentAttempts == 2
\* the count of consecutive closes saturates here (the delay is at its cap
\* from the sixth on)
MaxCloses == 7

MAX_RECONNECT_DELAY == 30000
INITIAL_RECONNECT_DELAY == 1000

AgentIds == 1..MaxAgentAttempts

\* a handle to a timer that has fired or to a socket that is CLOSED: truthy,
\* and clearTimeout / clearInterval / close() on it do nothing
Stale == -1

AState ==
  [mounted |-> mountedRef, wsRef |-> wsRef, reconnectDelay |-> reconnectDelay,
   reconnectTimer |-> reconnectTimer, pingTimer |-> pingTimer,
   connected |-> agentConnected, sockets |-> agentSockets,
   timers |-> agentTimers, timerDelay |-> timerDelay, pings |-> pings,
   closes |-> closes, timerCloses |-> timerCloses, overflow |-> FALSE]

ASet(st, op) ==
  /\ ~st.overflow
  /\ mountedRef' = st.mounted
  /\ wsRef' = st.wsRef
  /\ reconnectDelay' = st.reconnectDelay
  /\ reconnectTimer' = st.reconnectTimer
  /\ pingTimer' = st.pingTimer
  /\ agentConnected' = st.connected
  /\ agentSockets' = st.sockets
  /\ agentTimers' = st.timers
  /\ timerDelay' = st.timerDelay
  /\ pings' = st.pings
  /\ closes' = st.closes
  /\ timerCloses' = st.timerCloses
  /\ agentLastOp' = op
  /\ UNCHANGED <<ctorOk, mvars, dvars, pvars, wvars>>

\* a handler that leaves the agent store's conversations alone
AApply(st, op) == ASet(st, op) /\ UNCHANGED svars

AInit ==
  /\ effect = "initial"
  /\ mountedRef = TRUE
  /\ wsRef = 0
  /\ reconnectDelay = INITIAL_RECONNECT_DELAY
  /\ reconnectTimer = 0
  /\ pingTimer = 0
  /\ agentConnected = FALSE
  /\ ctorOk \in BOOLEAN
  /\ agentSockets = [s \in AgentIds |-> "none"]
  /\ agentTimers = {}
  /\ timerDelay = [s \in AgentIds |-> 0]
  /\ pings = {}
  /\ closes = 0
  /\ timerCloses = [s \in AgentIds |-> 0]
  /\ agentLastOp = "init"

----------------------------------------------------------------------------
(* Handlers of the agent hook *)

Min(a, b) == IF a <= b THEN a ELSE b

AFreeSlots(st) ==
  {s \in AgentIds : st.sockets[s] = "none" /\ s \notin st.timers}

ANextSlot(st) == CHOOSE s \in AFreeSlots(st) : \A r \in AFreeSlots(st) : s <= r

\* WebSocket.close() through a handle
ARefClose(st, h) ==
  IF h \in AgentIds /\ st.sockets[h] \in {"CONNECTING", "OPEN"}
  THEN [st EXCEPT !.sockets[h] = "CLOSING"]
  ELSE st

\* cleanup()
Cleanup(st) ==
  [st EXCEPT !.pings = @ \ {st.pingTimer},
             !.pingTimer = 0,
             !.timers = @ \ {st.reconnectTimer},
             !.timerCloses = [t \in AgentIds |->
                               IF t = st.reconnectTimer THEN 0 ELSE @[t]],
             !.timerDelay = [t \in AgentIds |->
                               IF t = st.reconnectTimer THEN 0 ELSE @[t]],
             !.reconnectTimer = 0]

\* connect() up to `await getToken()`
Connect(st) ==
  IF ~st.mounted THEN st
  ELSE IF st.wsRef \in AgentIds /\ st.sockets[st.wsRef] = "OPEN" THEN st
  ELSE LET st1 == Cleanup(st)
       IN IF AFreeSlots(st1) = {}
          THEN [st1 EXCEPT !.overflow = TRUE]
          ELSE [st1 EXCEPT !.sockets[ANextSlot(st1)] = "TOKEN"]

\* the scheduling with a backoff that triples
ScheduleReconnectTripling(st, t, n) ==
  LET delay == st.reconnectDelay
  IN [st EXCEPT !.reconnectDelay = Min(delay * 3, MAX_RECONNECT_DELAY),
                !.timers = @ \cup {t},
                !.timerDelay[t] = delay,
                !.timerCloses[t] = n,
                !.reconnectTimer = t]

\* const delay = reconnectDelay.current; ...; setTimeout(connect, delay)
\* the timer is named t; n: the closes it follows (0: it follows no close)
ScheduleReconnect(st, t, n) ==
  LET delay == st.reconnectDelay
  IN [st EXCEPT !.reconnectDelay = Min(delay * 2, MAX_RECONNECT_DELAY),
                !.timers = @ \cup {t},
                !.timerDelay[t] = delay,
                !.timerCloses[t] = n,
                !.reconnectTimer = t]

\* connect() after the await, the token being non-null (lines 61-112)
ConnectResume(st, s, ok) ==
  IF ~st.mounted THEN [st EXCEPT !.sockets[s] = "none"]
  ELSE IF ok
  THEN [st EXCEPT !.sockets[s] = "CONNECTING", !.wsRef = s]
  ELSE ScheduleReconnect([st EXCEPT !.sockets[s] = "none"], s, 0)

\* connect() after the await: null token, or getToken() rejected
ConnectAbandon(st, s) == [st EXCEPT !.sockets[s] = "none"]

\* ws.onopen of socket s
AOnOpen(st, s) ==
  LET st1 == [st EXCEPT !.sockets[s] = "OPEN", !.closes = 0]
  IN IF ~st1.mounted THEN st1
     ELSE [st1 EXCEPT !.connected = TRUE,
                      !.reconnectDelay = INITIAL_RECONNECT_DELAY,
                      !.pingTimer = s,
                      !.pings = @ \cup {s}]

\* ws.onclose of socket s (after ws.onerror, whose close() does nothing on
\* the CLOSED socket)
AOnClose(st, s) ==
  LET n == Min(st.closes + 1, MaxCloses)
      st1 == [st EXCEPT !.sockets[s] = "none",
                        !.closes = n,
                        !.wsRef = IF @ = s THEN Stale ELSE @,
                        !.pings = @ \ {s},
                        !.pingTimer = IF @ = s THEN Stale ELSE @]
  IN IF ~st1.mounted THEN st1
     ELSE ScheduleReconnect(Cleanup([st1 EXCEPT !.connected = FALSE]), s, n)

\* the reconnect timer t fires: connect()
AOnTimer(st, t) ==
  Connect([st EXCEPT !.timers = @ \ {t},
                     !.timerDelay[t] = 0,
                     !.timerCloses[t] = 0,
                     !.reconnectTimer = IF @ = t THEN Stale ELSE @])

\* the effect body: mountedRef.current = true; connect()
Mount(st) == Connect([st EXCEPT !.mounted = TRUE])

\* the effect's cleanup
Unmount(st) ==
  LET st1 == Cleanup([st EXCEPT !.mounted = FALSE])
      st2 == IF st1.wsRef # 0
             THEN [ARefClose(st1, st1.wsRef) EXCEPT !.wsRef = 0]
             ELSE st1
  IN [st2 EXCEPT !.connected = FALSE]

----------------------------------------------------------------------------
(* Actions of the agent channel *)

\* the component mounts
AMount ==
  /\ effect = "initial"
  /\ effect' = "on"
  /\ AApply(Mount(AState), "mount")

\* the effect runs again on the same refs (StrictMode's second run, a
\* dependency that changed): its cleanup, then its body, in one task
ARerun ==
  /\ effect = "on"
  /\ AApply(Mount(Unmount(AState)), "rerun")
  /\ UNCHANGED effect

\* the component unmounts
AUnmount ==
  /\ effect = "on"
  /\ effect' = "off"
  /\ AApply(Unmount(AState), "unmount")

ATokenResolves ==
  \E s \in AgentIds, outcome \in TokenOutcomes :
    /\ agentSockets[s] = "TOKEN"
    /\ IF outcome = "token"
       THEN AApply(ConnectResume(AState, s, ctorOk),
                   IF mountedRef /\ ctorOk THEN "socket" ELSE "token")
       ELSE AApply(ConnectAbandon(AState, s), "notoken")
    /\ UNCHANGED effect

ASocketOpens ==
  \E s \in AgentIds :
    /\ agentSockets[s] = "CONNECTING"
    /\ AApply(AOnOpen(AState, s), "open")
    /\ UNCHANGED effect

ASocketDrops ==
  \E s \in AgentIds :
    /\ agentSockets[s] \in {"CONNECTING", "OPEN"}
    /\ AApply(AOnClose(AState, s), "drop")
    /\ UNCHANGED effect

ASocketClosed ==
  \E s \in AgentIds :
    /\ agentSockets[s] = "CLOSING"
    /\ AApply(AOnClose(AState, s), "closed")
    /\ UNCHANGED effect

ATimerFires ==
  \E t \in agentTimers :
    /\ AApply(AOnTimer(AState, t), "timer")
    /\ UNCHANGED effect

ANext ==
  \/ AMount
  \/ ARerun
  \/ AUnmount
  \/ ATokenResolves
  \/ ASocketOpens
  \/ ASocketDrops
  \/ ASocketClosed
  \/ ATimerFires

----------------------------------------------------------------------------
(* The agent store: useAgentStore (stores/agent-store.ts) *)

\* conversations a turn may be appended to, per conversation
MaxMessages == 2

\* the conversation ids the server uses
ConvIds == {"c1", "c2"}

\* new Map(): the entries in insertion order, one per key
EmptyMap == <<>>

\* Map.prototype.has / get / set: set() on a key that is held keeps the
\* entry's place, on a new key it appends the entry
MapKeys(m) == {m[i].conversation_id : i \in 1..Len(m)}

MapHas(m, k) == k \in MapKeys(m)

MapGet(m, k) == m[CHOOSE i \in 1..Len(m) : m[i].conversation_id = k]

MapSet(m, k, v) ==
  IF MapHas(m, k)
  THEN [i \in 1..Len(m) |-> IF m[i].conversation_id = k THEN v ELSE m[i]]
  ELSE Append(m, v)

\* event.data when none of its fields is given
NoData ==
  [topic |-> Null, initiator |-> Null, initiator_name |-> Null,
   target |-> Null, target_name |-> Null, max_turns |-> Null,
   total_rounds |-> Null, meeting_type |-> Null, participants |-> Null,
   conclusion |-> Null, speaker |-> Null, content |-> Null]

\* data?.field
Field(data, f) == IF data = Null THEN Null ELSE The(data)[f]

\* the payloads the server sends with each event type
ConversationStartData ==
  {Some([NoData EXCEPT !.topic = Some("rates"), !.initiator = Some("bull"),
                       !.initiator_name = Some("Bull"),
                       !.target = Some("bear"), !.target_name = Some("Bear"),
                       !.max_turns = Some(4)])}

MeetingStartData ==
  {Null,
   Some([NoData EXCEPT !.topic = Some("rates"), !.total_rounds = Some(3),
                       !.participants =
                          Some(<<[agent_type |-> "bull", name |-> "Bull"]>>),
                       !.meeting_type = Some("morning")])}

TurnMessageData ==
  {Some([NoData EXCEPT !.speaker = Some("Bull"), !.content = Some("buy")]),
   Some([NoData EXCEPT !.speaker = Some("Bear"), !.content = Some("sell")])}

EndData == {Null, Some([NoData EXCEPT !.conclusion = Some("hold")])}

Event(type, convId, data) ==
  [type |-> type, conversation_id |-> convId, data |-> data]

\* the events of a conversation, with every payload
EventsOf(c) ==
  {Event("conversation_start", Some(c), d) : d \in ConversationStartData}
  \cup {Event("meeting_start", Some(c), d) : d \in MeetingStartData}
  \cup {Event("turn_message", Some(c), d) : d \in TurnMessageData}
  \cup {Event(t, Some(c), d) : t \in {"conversation_end", "meeting_end"},
                               d \in EndData}

\* the events of a conversation that runs beside it
EventsBeside(c) ==
  {Event("conversation_start", Some(c), Null),
   Event("turn_message", Some(c), CHOOSE d \in TurnMessageData : TRUE),
   Event("conversation_end", Some(c), Null)}

\* the events: those of conversation c1, those of c2 beside it, an event of
\* each type without an id, and events of a type the switch has no case
\* for ("agent_state" is one the handler does not know)
AgentEvents ==
  EventsOf("c1") \cup EventsBeside("c2")
  \cup {Event(t, Null, Null) :
          t \in {"conversation_start", "meeting_start", "turn_message",
                 "conversation_end", "meeting_end", "pong", "agent_state"}}
  \cup {Event("pong", Some("c1"), Null), Event("agent_state", Some("c1"), Null)}

\* the store as one value
SState ==
  [liveConversations |-> liveConversations, activeDebateId |-> activeDebateId,
   threw |-> FALSE]

\* !convId: undefined, null or the empty string
Falsy(convId) == convId = Null \/ convId = Some("")

\* case "conversation_start"
ConversationStart(store, convId, data) ==
  [store EXCEPT !.liveConversations =
     MapSet(@, convId,
            [conversation_id |-> convId,
             topic |-> OrElse(Field(data, "topic"), ""),
             participants |->
               <<[agent_type |-> Field(data, "initiator"),
                  name |-> Field(data, "initiator_name")],
                 [agent_type |-> Field(data, "target"),
                  name |-> Field(data, "target_name")]>>,
             messages |-> <<>>,
             status |-> "active",
             maxTurns |-> OrElse(Field(data, "max_turns"), 6),
             meetingType |-> Null,
             conclusion |-> Null])]

\* case "meeting_start"
MeetingStart(store, convId, data) ==
  [store EXCEPT !.liveConversations =
     MapSet(@, convId,
            [conversation_id |-> convId,
             topic |-> OrElse(Field(data, "topic"), ""),
             participants |-> OrElse(Field(data, "participants"), <<>>),
             messages |-> <<>>,
             status |-> "active",
             maxTurns |-> OrElse(Field(data, "total_rounds"), 2) * 4,
             meetingType |-> Some(OrElse(Field(data, "meeting_type"),
                                         "meeting")),
             conclusion |-> Null])]

\* a turn that opens the conversation it does not find
TurnMessageCreating(store, convId, data) ==
  [store EXCEPT !.liveConversations =
     MapSet(@, convId,
            [conversation_id |-> convId, topic |-> "", participants |-> <<>>,
             messages |-> IF MapHas(@, convId)
                          THEN Append(MapGet(@, convId).messages, data)
                          ELSE <<data>>,
             status |-> "active", maxTurns |-> 6, meetingType |-> Null,
             conclusion |-> Null])]

\* a turn that is put in front of the earlier ones
TurnMessagePrepending(store, convId, data) ==
  IF MapHas(store.liveConversations, convId)
  THEN LET conv == MapGet(store.liveConversations, convId)
       IN [store EXCEPT !.liveConversations =
             MapSet(@, convId,
                    [conv EXCEPT !.messages = <<data>> \o @])]
  ELSE store

\* case "turn_message"
TurnMessage(store, convId, data) ==
  IF MapHas(store.liveConversations, convId)
  THEN LET conv == MapGet(store.liveConversations, convId)
       IN [store EXCEPT !.liveConversations =
             MapSet(@, convId,
                    [conv EXCEPT !.messages = Append(@, data)])]
  ELSE store

\* an end that drops the conversation from the Map
ConversationEndRemoving(store, convId, data) ==
  [store EXCEPT
     !.liveConversations = SelectSeq(@, LAMBDA v : v.conversation_id # convId),
     !.activeDebateId = IF @ = Some(convId) THEN Null ELSE @]

\* an end that clears the pointer whatever it points at
ConversationEndClearing(store, convId, data) ==
  IF MapHas(store.liveConversations, convId)
  THEN LET conv == MapGet(store.liveConversations, convId)
       IN [store EXCEPT
             !.liveConversations =
                MapSet(@, convId,
                       [conv EXCEPT !.status = "completed",
                                    !.conclusion = Field(data, "conclusion")]),
             !.activeDebateId = Null]
  ELSE store

\* case "conversation_end" / "meeting_end"
ConversationEnd(store, convId, data) ==
  IF MapHas(store.liveConversations, convId)
  THEN LET conv == MapGet(store.liveConversations, convId)
       IN [store EXCEPT
             !.liveConversations =
                MapSet(@, convId,
                       [conv EXCEPT !.status = "completed",
                                    !.conclusion = Field(data, "conclusion")]),
             !.activeDebateId = IF @ = Some(convId) THEN Null ELSE @]
  ELSE store

\* a default case that clears the pointer
DefaultClearing(store) == [store EXCEPT !.activeDebateId = Null]

\* default: break
Default(store) == store

\* handleAgentEvent(event)
HandleAgentEvent(store, event) ==
  LET type == event.type
      convId == event.conversation_id
      data == event.data
  IN IF Falsy(convId) /\ type # "pong" THEN store
     ELSE CASE type = "conversation_start" ->
                 ConversationStart(store, The(convId), data)
            [] type = "meeting_start" ->
                 MeetingStart(store, The(convId), data)
            [] type = "turn_message" ->
                 TurnMessage(store, The(convId), data)
            [] type \in {"conversation_end", "meeting_end"} ->
                 ConversationEnd(store, The(convId), data)
            [] OTHER -> Default(store)

\* the longest list of messages a conversation holds
RECURSIVE LongestMessages(_)
LongestMessages(m) ==
  IF m = <<>> THEN 0
  ELSE LET n == Len(Head(m).messages)
           r == LongestMessages(Tail(m))
       IN IF n > r THEN n ELSE r

SApply(store) ==
  /\ LongestMessages(store.liveConversations) <= MaxMessages
  /\ liveConversations' = store.liveConversations
  /\ activeDebateId' = store.activeDebateId

\* the agent store after create()
SInit ==
  /\ liveConversations = EmptyMap
  /\ activeDebateId = Null
  /\ lastEvent = Null
  /\ arrived = [c \in ConvIds |-> Null]

\* the turn messages handled since the last start event, after this event
Arrive(arr, event) ==
  IF Falsy(event.conversation_id) THEN arr
  ELSE LET c == The(event.conversation_id)
       IN IF event.type \in {"conversation_start", "meeting_start"}
          THEN [arr EXCEPT ![c] = Some(<<>>)]
          ELSE IF event.type = "turn_message" /\ arr[c] # Null
          THEN [arr EXCEPT ![c] = Some(Append(The(@), event.data))]
          ELSE arr

\* handleAgentEvent(event), whoever calls it
SHandleAgentEvent ==
  \E event \in AgentEvents :
    /\ LET store == HandleAgentEvent(SState, event)
       IN /\ SApply(store)
          /\ lastEvent' = Given("handleAgentEvent", event, store.threw)
    /\ arrived' = Arrive(arrived, event)
    /\ UNCHANGED <<mvars, avars, dvars, pvars, wvars>>

\* setActiveDebateId(res.conversation_id): the debate the user has started
SSetActiveDebateId ==
  \E id \in ConvIds :
    /\ activeDebateId' = Some(id)
    /\ lastEvent' = Given("setActiveDebateId", Event("", Some(id), Null), FALSE)
    /\ UNCHANGED <<liveConversations, arrived, mvars, avars, dvars, pvars,
                   wvars>>

SNext ==
  \/ SHandleAgentEvent
  \/ SSetActiveDebateId

----------------------------------------------------------------------------
(* The agent hook's message handler *)

\* the frames the agent socket delivers: a text that is not JSON, the JSON
\* text `null`, and the events of one conversation and a pong
AgentFrames ==
  {NotJson, Json(Null), Json(Some(Event("pong", Null, Null)))}
  \cup {Json(Some(e)) : e \in EventsBeside("c1")}

\* the try block of ws.onmessage; destructuring null throws
AOnMessageTry(store, frame) ==
  LET st1 == JsonParse(store, frame)
  IN IF st1.threw THEN st1
     ELSE IF frame.value = Null THEN [st1 EXCEPT !.threw = TRUE]
     ELSE HandleAgentEvent(st1, The(frame.value))

\* ws.onmessage of the agent socket
AOnMessage(store, mounted, frame) ==
  IF ~mounted THEN store ELSE Catch(AOnMessageTry(store, frame))

\* a frame arrives on a socket that is OPEN
AMessage ==
  \E s \in AgentIds, frame \in AgentFrames :
    /\ agentSockets[s] = "OPEN"
    /\ ASet(AState, "message")
    /\ SApply(AOnMessage(SState, mountedRef, frame))
    /\ lastEvent' = Given("message", frame,
                          AOnMessage(SState, mountedRef, frame).threw)
    /\ arrived' = IF mountedRef /\ frame.json /\ frame.value # Null
                  THEN Arrive(arrived, The(frame.value))
                  ELSE arrived
    /\ UNCHANGED effect

----------------------------------------------------------------------------
(* The trading page: its effects and the REST calls they start.  A selection *)
(* or a timeframe change comes from a click; the store update, the render   *)
(* and the effects that follow it run within the task of the click, so a    *)
(* promise settles before or after all of them.                             *)

\* the calls of one kind in flight at a time: the calls an effect starts
\* for the focused code, and the calls of the whole page
MaxFetches == 2

MaxPolls == 1

Limit(kind) == IF kind \in {"candles", "price"} THEN MaxFetches ELSE MaxPolls

Timeframes == {"1d", "1m"}

\* the first entries of SAMPLE_STOCKS
SAMPLE_STOCKS ==
  <<StockOf("005930", 71500, Some(500), Some(70)),
    StockOf("035720", 43850, Some(350), Some(80))>>

\* the page as one value
PState ==
  [mounted |-> pageMounted, apiReady |-> apiReady, timeframe |-> timeframe,
   selectedCodeRef |-> selectedCodeRef, candleData |-> candleData,
   candleError |-> candleError, fetches |-> fetches, lastFetch |-> Null,
   overflow |-> FALSE]

PSet(st) ==
  /\ ~st.overflow
  /\ pageMounted' = st.mounted
  /\ apiReady' = st.apiReady
  /\ timeframe' = st.timeframe
  /\ selectedCodeRef' = st.selectedCodeRef
  /\ candleData' = st.candleData
  /\ candleError' = st.candleError
  /\ fetches' = st.fetches
  /\ lastFetch' = st.lastFetch
  /\ UNCHANGED wvars

\* the page before it mounts
PInit ==
  /\ pageMounted = FALSE
  /\ apiReady = FALSE
  /\ timeframe = "1d"
  /\ selectedCodeRef = NoCode
  /\ candleData = Null
  /\ candleError = ""
  /\ fetches = <<>>
  /\ lastFetch = Null

\* an async call of the page: it awaits getToken() ("token"), then the
\* response ("http"); cancelled: the `cancelled` of the effect run that
\* started it; pushed: a push event has written currentPrice since the
\* request was sent (history); hadAccount: `account` of the render whose
\* loadAccountAndHoldings this is
Fetch(kind, code, tf) ==
  [kind |-> kind, code |-> code, timeframe |-> tf, stage |-> "token",
   cancelled |-> FALSE, pushed |-> FALSE, hadAccount |-> FALSE]

\* the calls of a kind in flight
InFlight(list, kind) == {i \in 1..Len(list) : list[i].kind = kind}

StartFetch(st, f) ==
  IF Cardinality(InFlight(st.fetches, f.kind)) >= Limit(f.kind)
  THEN [st EXCEPT !.overflow = TRUE]
  ELSE [st EXCEPT !.fetches = Append(@, f)]

RemoveAt(seq, i) == SubSeq(seq, 1, i - 1) \o SubSeq(seq, i + 1, Len(seq))

\* the call settles: it is no longer in flight
Settle(st, i, outcome) ==
  [st EXCEPT !.fetches = RemoveAt(@, i),
             !.lastFetch = IF "settled" \in recorded
                           THEN Some([fetch |-> st.fetches[i],
                                      outcome |-> outcome])
                           ELSE Null]

\* a cleanup that cancels nothing
CandleCleanupNone(st) == st

\* the cleanup of the candle effect: cancelled = true
CandleCleanup(st) ==
  [st EXCEPT !.fetches =
     [i \in 1..Len(@) |->
        IF @[i].kind = "candles" THEN [@[i] EXCEPT !.cancelled = TRUE]
        ELSE @[i]]]

\* the candle effect (lines 355-397), code: selectedStock?.code
CandleEffect(st, code) ==
  LET st1 == [st EXCEPT !.selectedCodeRef = code]
  IN IF ~st.apiReady \/ code = NoCode
     THEN [st1 EXCEPT !.candleData = Null, !.candleError = ""]
     ELSE StartFetch([st1 EXCEPT !.candleError = ""],
                     Fetch("candles", code, st.timeframe))

\* cancelled || selectedCodeRef.current !== code
CandleStale(st, f) == f.cancelled \/ st.selectedCodeRef # f.code

\* await getToken() of the candle effect: a token, or a rejection
CandlesToken(st, i, ok) ==
  LET f == st.fetches[i]
  IN IF ok
     THEN IF CandleStale(st, f) THEN Settle(st, i, "token")
          ELSE [st EXCEPT !.fetches[i].stage = "http"]
     ELSE IF CandleStale(st, f) THEN Settle(st, i, "reject")
          ELSE [Settle(st, i, "reject") EXCEPT !.candleError = "error"]

CandleOutcomes == {"data", "empty", "error"}

\* what getCandles resolves to: the candles of the code in the timeframe
Candles(code, tf) == Some([code |-> code, timeframe |-> tf])

\* await getCandles(...) of the candle effect
CandlesResolve(st, i, outcome) ==
  LET f == st.fetches[i]
      st1 == Settle(st, i, outcome)
  IN IF CandleStale(st, f) THEN st1
     ELSE IF outcome = "data"
     THEN [st1 EXCEPT !.candleData = Candles(f.code, f.timeframe),
                      !.candleError = ""]
     ELSE IF outcome = "empty"
     THEN [st1 EXCEPT !.candleError = "no data"]
     ELSE [st1 EXCEPT !.candleError = "error"]

\* the initial price effect (lines 412-427)
PriceEffect(st, code) ==
  IF ~st.apiReady \/ code = NoCode THEN st
  ELSE StartFetch(st, Fetch("price", code, ""))

\* fetchBatchPrices() up to its first await (lines 184-187)
StartBatch(st) == StartFetch(st, Fetch("batch", NoCode, ""))

\* loadAccountAndHoldings() up to its first response (lines 295-298)
StartPortfolio(st, hadAccount) ==
  StartFetch(st, [Fetch("portfolio", NoCode, "") EXCEPT
                    !.stage = "account", !.hadAccount = hadAccount])

\* the effects that depend on apiReady, in the order of the source
ReadyEffects(st, code, hadAccount) ==
  PriceEffect(
    CandleEffect(CandleCleanup(StartPortfolio(StartBatch(st), hadAccount)),
                 code),
    code)

\* the effects that depend on selectedStock?.code
SelectEffects(st, code) ==
  PriceEffect(CandleEffect(CandleCleanup(st), code), code)

\* the codes of the list the page renders
CodesOf(list) == [i \in 1..Len(list) |-> list[i].code]

(* What the REST calls of the page resolve to, and what the page does with it *)

\* the JSON of /market/price/{code}: every field may be missing
NoRaw ==
  [stock_code |-> Null, current_price |-> Null, change_price |-> Null,
   change_rate |-> Null, volume |-> Null, high_price |-> Null,
   low_price |-> Null, open_price |-> Null, cached_at |-> Null]

RawPrice(code, price, change) ==
  [stock_code |-> Some(code), current_price |-> Some(price),
   change_price |-> Some(change), change_rate |-> Some(142),
   volume |-> Some(400), high_price |-> Some(price + 300),
   low_price |-> Some(price - 700), open_price |-> Some(price - 500),
   cached_at |-> Some("08:59:00")]

\* the price the REST server quotes for a code
Quote(code) == IF code = "005930" THEN 71000 ELSE 50500

RawPrices(code) == {NoRaw, RawPrice(code, Quote(code), 1000)}

\* getPrice(token, stockCode): the PriceData of the response
GetPrice(raw, stockCode) ==
  [code |-> OrElse(raw.stock_code, stockCode),
   price |-> OrElse(raw.current_price, 0),
   change |-> OrElse(raw.change_price, 0),
   changeRate |-> OrElse(raw.change_rate, 0),
   volume |-> OrElse(raw.volume, 0),
   high |-> OrElse(raw.high_price, 0),
   low |-> OrElse(raw.low_price, 0),
   open |-> OrElse(raw.open_price, 0),
   prevClose |-> OrElse(raw.current_price, 0) - OrElse(raw.change_price, 0),
   timestamp |-> OrElse(raw.cached_at, "")]

\* setCurrentPrice(currentPrice) of the store, given a PriceData
SetCurrentPrice(st, cp) ==
  LET st1 == [st EXCEPT !.currentPrice = Some(cp)]
      idx == FindIndex(st1.stocks, "code", cp.code)
  IN IF cp.price > 0 /\ idx > 0 /\ st1.stocks[idx].currentPrice # cp.price
     THEN [st1 EXCEPT !.stocks[idx] =
             [@ EXCEPT !.currentPrice = cp.price,
                       !.changePrice = Some(cp.change),
                       !.changeRate = Some(cp.changeRate)]]
     ELSE st1

\* the .then of getPrice in the initial price effect (lines 418-422)
PriceResolve(st, code, raw) ==
  LET priceData == GetPrice(raw, code)
  IN IF priceData.price > 0 THEN SetCurrentPrice(st, priceData) ELSE st

\* a row of getBatchPrices; changePrice and changeRate may be missing
Row(code, price, changePrice, changeRate) ==
  [stockCode |-> code, currentPrice |-> price, changePrice |-> changePrice,
   changeRate |-> changeRate]

BatchResponses ==
  {<<>>,
   <<Row("005930", 71000, Some(1000), Some(143)),
     Row("035720", 50500, Null, Null)>>}

\* priceMap.get(code): the last row of the code, or Null
PriceMapGet(prices, code) ==
  LET hits == {i \in 1..Len(prices) : prices[i].stockCode = code}
  IN IF hits = {} THEN Null
     ELSE Some(prices[CHOOSE i \in hits : \A j \in hits : j <= i])

\* setStocks(updated) of fetchBatchPrices (lines 193-206)
BatchStocks(st, prices) ==
  LET currentStocks == IF Len(st.stocks) > 0 THEN st.stocks ELSE SAMPLE_STOCKS
  IN [st EXCEPT !.stocks =
        [i \in 1..Len(currentStocks) |->
           LET p == PriceMapGet(prices, currentStocks[i].code)
           IN IF p # Null
              THEN [currentStocks[i] EXCEPT
                      !.currentPrice = The(p).currentPrice,
                      !.changePrice = The(p).changePrice,
                      !.changeRate = The(p).changeRate]
              ELSE currentStocks[i]]]

\* the field of prev, or the default when prev is null
PrevOr(prev, field, default) ==
  IF prev # Null THEN The(prev)[field] ELSE default

\* the focused instrument's price of fetchBatchPrices (lines 208-230)
BatchCurrentPrice(st, prices) ==
  LET p == IF st.selectedStock # NoCode
           THEN PriceMapGet(prices, st.selectedStock)
           ELSE Null
      prev == st.currentPrice
  IN IF p # Null /\ The(p).currentPrice > 0
        /\ (prev = Null \/ The(prev).price # The(p).currentPrice)
     THEN SetCurrentPrice(st,
            [code |-> st.selectedStock,
             price |-> The(p).currentPrice,
             change |-> OrElse(The(p).changePrice, PrevOr(prev, "change", 0)),
             changeRate |-> OrElse(The(p).changeRate,
                                   PrevOr(prev, "changeRate", 0)),
             volume |-> PrevOr(prev, "volume", 0),
             high |-> PrevOr(prev, "high", The(p).currentPrice),
             low |-> PrevOr(prev, "low", The(p).currentPrice),
             open |-> PrevOr(prev, "open", The(p).currentPrice),
             prevClose |-> The(p).currentPrice - OrElse(The(p).changePrice, 0),
             timestamp |-> "now"])
     ELSE st

\* totals left as they are
AccountKept(st) == st

\* the account's totals of fetchBatchPrices (lines 251-260)
BatchAccount(st) ==
  IF st.account # Null
  THEN LET acct == The(st.account)
           newTotalAsset == acct.balance + SumTotalValue(st.holdings)
           newProfit == newTotalAsset - acct.initialCapital
       IN [st EXCEPT !.account =
             Some([acct EXCEPT
                     !.totalAsset = newTotalAsset,
                     !.totalProfit = newProfit,
                     !.totalProfitRate =
                        IF acct.initialCapital > 0
                        THEN RoundRate(newProfit, acct.initialCapital)
                        ELSE 0])]
  ELSE st

\* the holdings of fetchBatchPrices (lines 232-262)
BatchHoldings(st, prices) ==
  LET curHoldings == st.holdings
      Changed(h) ==
        LET p == PriceMapGet(prices, h.stockCode)
        IN p # Null /\ The(p).currentPrice > 0
           /\ The(p).currentPrice # h.currentPrice
      updatedHoldings ==
        [i \in 1..Len(curHoldings) |->
           LET h == curHoldings[i]
               price == The(PriceMapGet(prices, h.stockCode)).currentPrice
               newTotalValue == price * h.quantity
               cost == h.avgPrice * h.quantity
               newProfit == newTotalValue - cost
           IN IF Changed(h)
              THEN [h EXCEPT !.currentPrice = price,
                             !.totalValue = newTotalValue,
                             !.profit = newProfit,
                             !.profitRate = IF cost > 0
                                            THEN RoundRate(newProfit, cost)
                                            ELSE 0]
              ELSE h]
  IN IF \E i \in 1..Len(curHoldings) : Changed(curHoldings[i])
     THEN BatchAccount([st EXCEPT !.holdings = updatedHoldings])
     ELSE st

\* fetchBatchPrices() from the response on (lines 189-263)
FetchBatchPrices(st, prices) ==
  IF Len(prices) = 0 THEN st
  ELSE BatchHoldings(BatchCurrentPrice(BatchStocks(st, prices), prices),
                     prices)

\* the totals the server computes for an account over its holdings
ServerAccount(balance, initialCapital, list) ==
  [balance |-> balance, initialCapital |-> initialCapital,
   totalAsset |-> balance + SumTotalValue(list),
   totalProfit |-> balance + SumTotalValue(list) - initialCapital,
   totalProfitRate |-> RoundRate(balance + SumTotalValue(list) - initialCapital,
                                 initialCapital)]

\* SAMPLE_ACCOUNT
SAMPLE_ACCOUNT == ServerAccount(100000000, 100000000, <<>>)

\* what /account/portfolio/{id} answers: an account with its holdings, or
\* an account that holds nothing
Portfolios ==
  {[account |-> ServerAccount(1000000, 2000000, list), holdings |-> list] :
     list \in HoldingLists}
  \cup {[account |-> ServerAccount(1950000, 2000000, <<>>), holdings |-> <<>>]}

\* loadAccountAndHoldings() after getAccount/createAccount (line 302)
AccountLoaded(st, acct) == [st EXCEPT !.account = Some(acct)]

\* its outer catch (line 316); hadAccount: `account` of the render
AccountFailed(st, hadAccount) ==
  IF ~hadAccount THEN [st EXCEPT !.account = Some(SAMPLE_ACCOUNT)] ELSE st

\* loadAccountAndHoldings() after getHoldings (lines 308-311)
PortfolioLoaded(st, portfolio) ==
  LET st1 == IF Len(portfolio.holdings) > 0
             THEN [st EXCEPT !.holdings = portfolio.holdings]
             ELSE st
  IN [st1 EXCEPT !.account = Some(portfolio.account)]

(* Actions of the trading page *)

\* the frames the market socket pushes while the page is shown: prices
PriceFrames ==
  {Json(Some(Message("price_update",
        Some([Tick("005930", 71000) EXCEPT
                !.change = Some(1000), !.change_rate = Some(143),
                !.volume = Some(500), !.high = Some(71500),
                !.low = Some(69500), !.open = Some(70000),
                !.time = Some("09:00:01")])))),
   Json(Some(Message("price_update",
        Some([Tick("005930", 71500) EXCEPT !.change = Some(500)])))),
   Json(Some(Message("price_update", Some(Tick("035720", 50500)))))}

\* and order books
OrderbookFrames ==
  {Json(Some(Message("orderbook_update",
        Some([Tick("005930", 0) EXCEPT
                !.asks = Some(<<[price |-> 71100, volume |-> 3],
                                [price |-> 71200, volume |-> 5]>>),
                !.bids = Some(<<[price |-> 70900, volume |-> 4]>>)])))),
   Json(Some(Message("orderbook_update",
        Some([Tick("005930", 0) EXCEPT
                !.asks = Some(<<[price |-> 71600, volume |-> 1]>>),
                !.bids = Some(<<>>)])))),
   Json(Some(Message("orderbook_update",
        Some([Tick("035720", 0) EXCEPT
                !.bids = Some(<<[price |-> 50400, volume |-> 7]>>)]))))}

\* no frame is handled in the step, and the agent store is left alone
PQuiet ==
  /\ lastEvent' = Null
  /\ UNCHANGED <<liveConversations, activeDebateId, arrived>>

\* the first render and its effects: the token getter, the sample list,
\* the candle and price effects before apiReady
PMount ==
  /\ ~pageMounted
  /\ lastOp' = Op("mount")
  /\ MSet([MState EXCEPT !.tokenGetter = TRUE])
  /\ DApply(IF Len(stocks) = 0 THEN [DState EXCEPT !.stocks = SAMPLE_STOCKS]
            ELSE DState)
  /\ PSet(SelectEffects([PState EXCEPT !.mounted = TRUE], selectedStock))
  /\ PQuiet
  /\ UNCHANGED disconnected

\* getToken() of the mount resolves: setApiReady(true), and the effects
\* that depend on it (lines 142-145, 178-292, 320-323, 355-398, 412-427)
PApiReady ==
  /\ pageMounted /\ ~apiReady
  /\ lastOp' = Op("apiReady")
  /\ MSet(ConnectWs(MState, selectedStock,
                    CodesOf(IF Len(stocks) > 0 THEN stocks ELSE SAMPLE_STOCKS),
                    {}))
  /\ PSet(ReadyEffects([PState EXCEPT !.apiReady = TRUE], selectedStock,
                       account # Null))
  /\ disconnected' = FALSE
  /\ PQuiet
  /\ UNCHANGED dvars

\* handleSelectStock(code, name), and the effects that depend on the code
PSelectStock ==
  \E code \in Codes :
    /\ pageMounted
    /\ lastOp' = [Op("select") EXCEPT !.code = code]
    /\ MSet(SetSelectedStock(MState, code))
    /\ PSet(IF code # selectedStock THEN SelectEffects(PState, code)
            ELSE PState)
    /\ disconnected' = FALSE
    /\ PQuiet
    /\ UNCHANGED dvars

\* handleTimeframeChange(tf), and the candle effect
PSetTimeframe ==
  \E tf \in Timeframes \ {timeframe} :
    /\ pageMounted
    /\ lastOp' = Op("timeframe")
    /\ MSet(MState)
    /\ PSet(CandleEffect(CandleCleanup([PState EXCEPT !.timeframe = tf]),
                         selectedStock))
    /\ PQuiet
    /\ UNCHANGED <<disconnected, dvars>>

\* the interval of the batch effect fires
PPoll ==
  /\ apiReady
  /\ lastOp' = Op("poll")
  /\ MSet(MState)
  /\ PSet(StartBatch(PState))
  /\ PQuiet
  /\ UNCHANGED <<disconnected, dvars>>

\* await getToken() of a call: a token, or a rejection (the candle effect
\* catches it, fetchBatchPrices ignores it, the price effect leaves it)
FetchToken(st, i, ok) ==
  IF st.fetches[i].kind = "candles" THEN CandlesToken(st, i, ok)
  ELSE IF ok THEN [st EXCEPT !.fetches[i].stage = "http"]
  ELSE Settle(st, i, "reject")

PFetchToken(kind) ==
  \E i \in InFlight(fetches, kind), ok \in BOOLEAN :
    /\ fetches[i].stage = "token"
    /\ lastOp' = Op("fetchToken")
    /\ MSet(MState)
    /\ PSet(FetchToken(PState, i, ok))
    /\ PQuiet
    /\ UNCHANGED <<disconnected, dvars>>

\* getCandles settles
PCandles ==
  \E i \in 1..Len(fetches), outcome \in CandleOutcomes :
    /\ fetches[i].kind = "candles" /\ fetches[i].stage = "http"
    /\ lastOp' = Op("candles")
    /\ MSet(MState)
    /\ PSet(CandlesResolve(PState, i, outcome))
    /\ PQuiet
    /\ UNCHANGED <<disconnected, dvars>>

\* getPrice settles
PPrice ==
  \E i \in 1..Len(fetches), ok \in BOOLEAN :
    /\ fetches[i].kind = "price" /\ fetches[i].stage = "http"
    /\ lastOp' = Op("price")
    /\ MSet(MState)
    /\ \E raw \in RawPrices(fetches[i].code) :
         DApply(IF ok THEN PriceResolve(DState, fetches[i].code, raw)
                ELSE DState)
    /\ PSet(Settle(PState, i, IF ok THEN "ok" ELSE "error"))
    /\ PQuiet
    /\ UNCHANGED disconnected

\* getBatchPrices settles; a failure does what an empty list does
PBatch ==
  \E i \in 1..Len(fetches), prices \in BatchResponses :
    /\ fetches[i].kind = "batch" /\ fetches[i].stage = "http"
    /\ lastOp' = Op("batch")
    /\ MSet(MState)
    /\ DApply(FetchBatchPrices(DState, prices))
    /\ PSet(Settle(PState, i, "ok"))
    /\ PQuiet
    /\ UNCHANGED disconnected

\* getAccount (or createAccount) settles, then getHoldings
PPortfolio ==
  \E i \in 1..Len(fetches), ok \in BOOLEAN, portfolio \in Portfolios :
    /\ fetches[i].kind = "portfolio"
    /\ lastOp' = Op("portfolio")
    /\ MSet(MState)
    /\ IF fetches[i].stage = "account"
       THEN IF ok
            THEN /\ DApply(AccountLoaded(DState, portfolio.account))
                 /\ PSet([PState EXCEPT !.fetches[i].stage = "holdings"])
            ELSE /\ DApply(AccountFailed(DState, fetches[i].hadAccount))
                 /\ PSet(Settle(PState, i, "error"))
       ELSE /\ DApply(IF ok THEN PortfolioLoaded(DState, portfolio) ELSE DState)
            /\ PSet(Settle(PState, i, IF ok THEN "ok" ELSE "error"))
    /\ PQuiet
    /\ UNCHANGED disconnected

\* the frame writes currentPrice: a price_update of the focused instrument
WritesPrice(frame, focus) ==
  /\ frame.json /\ frame.value # Null
  /\ The(frame.value).type = "price_update"
  /\ The(frame.value).data # Null
  /\ focus # NoCode
  /\ The(The(frame.value).data).stock_code = focus

\* the requests a push that writes currentPrice overtakes
MarkPushed(list, frame, focus) ==
  [i \in 1..Len(list) |->
     IF /\ "settled" \in recorded
        /\ list[i].stage = "http" /\ WritesPrice(frame, focus)
     THEN [list[i] EXCEPT !.pushed = TRUE] ELSE list[i]]

\* a frame arrives on a socket that is OPEN while the page is shown
PPush(frames) ==
  \E s \in SockIds, frame \in frames :
    /\ sockets[s].state = "OPEN"
    /\ lastOp' = Op("message")
    /\ MSet(MState)
    /\ DApply(OnMessage(DState, frame))
    /\ lastEvent' = Given("message", frame, OnMessage(DState, frame).threw)
    /\ PSet([PState EXCEPT !.fetches = MarkPushed(@, frame, selectedStock)])
    /\ UNCHANGED <<disconnected, liveConversations, activeDebateId, arrived>>

\* the socket of the store connects: the token arrives, the socket opens
PSocketOpens == (\E s \in SockIds : MTokenArrives(s)) \/ MSocketOpens

\* the page and its candle calls; a call of another kind stays in flight
CandleNext ==
  \/ PMount
  \/ PApiReady
  \/ PSelectStock
  \/ PSetTimeframe
  \/ PFetchToken("candles")
  \/ PCandles
  \/ PSocketOpens

\* the page, its calls for the focused price and the socket of the store
PriceNext ==
  \/ PMount
  \/ PApiReady
  \/ PSelectStock
  \/ PFetchToken("price")
  \/ PPrice
  \/ PPush(PriceFrames)
  \/ PSocketOpens

\* the page and its batch calls
BatchNext ==
  \/ PMount
  \/ PApiReady
  \/ PSelectStock
  \/ PPoll
  \/ PFetchToken("batch")
  \/ PBatch
  \/ PSocketOpens

\* the page and the order books its socket pushes
OrderbookNext ==
  \/ PMount
  \/ PApiReady
  \/ PSelectStock
  \/ PPush(OrderbookFrames)
  \/ PSocketOpens

\* the page, its portfolio and batch calls and the socket of the store
HoldingsNext ==
  \/ PMount
  \/ PApiReady
  \/ PSelectStock
  \/ PFetchToken("batch")
  \/ PBatch
  \/ PPortfolio
  \/ PPush(PriceFrames)
  \/ PSocketOpens

----------------------------------------------------------------------------
(* The Orderbook component: the levels it shows, with cumulative volumes *)

\* the levels .slice(0, 10) keeps
DEPTH == 10

\* the longest list of levels given to the component
MaxLevels == 12

Level(price, volume) == [price |-> price, volume |-> volume]

\* a book of MaxLevels levels, every price once, in no order
BaseLevels ==
  [k \in 1..MaxLevels |-> Level(71000 + 100 * ((k * 5) % 17), 1 + (k % 3))]

\* the list from its element r + 1 on, then its first r elements
Rotate(list, r) == SubSeq(list, r + 1, Len(list)) \o SubSeq(list, 1, r)

\* levels that share a price
TiedLevels == {Level(71000, 1), Level(71100, 2), Level(71000, 3)}

\* the lists given as asks or bids: the beginnings of every rotation of the
\* base book, and the short lists of tied levels
LevelLists ==
  {SubSeq(Rotate(BaseLevels, r), 1, n) : r \in 0..(MaxLevels - 1),
                                         n \in 0..MaxLevels}
  \cup UNION {[1..n -> TiedLevels] : n \in 1..3}

\* the component before it renders
OInit ==
  /\ askLevels = <<>>
  /\ bidLevels = <<>>
  /\ asksWithAcc = Null
  /\ bidsWithAcc = Null

\* a list left in the order given
Unsorted(list) == list

\* x put behind the levels of sorted that are not cheaper than x
RECURSIVE InsertDesc(_, _)
InsertDesc(sorted, x) ==
  IF sorted = <<>> THEN <<x>>
  ELSE IF Head(sorted).price >= x.price
  THEN <<Head(sorted)>> \o InsertDesc(Tail(sorted), x)
  ELSE <<x>> \o sorted

\* [...list].sort((a, b) => b.price - a.price): descending by price, levels
\* of one price in the order given (the sort is stable)
RECURSIVE SortDesc(_)
SortDesc(list) ==
  IF list = <<>> THEN <<>>
  ELSE InsertDesc(SortDesc(SubSeq(list, 1, Len(list) - 1)), list[Len(list)])

\* .slice(0, n)
Slice(list, n) == SubSeq(list, 1, Min(n, Len(list)))

\* acc after the first i levels
RECURSIVE Acc(_, _)
Acc(sorted, i) == IF i = 0 THEN 0 ELSE Acc(sorted, i - 1) + sorted[i].volume

\* asksWithAcc / bidsWithAcc of the levels given
WithAcc(list) ==
  LET sorted == Slice(SortDesc(list), DEPTH)
  IN [i \in 1..Len(sorted) |->
        [price |-> sorted[i].price, volume |-> sorted[i].volume,
         accumulatedVolume |-> Acc(sorted, i)]]

\* the component renders: both memos are computed
ORender ==
  /\ asksWithAcc' = Some(WithAcc(askLevels))
  /\ bidsWithAcc' = Some(WithAcc(bidLevels))
  /\ UNCHANGED <<askLevels, bidLevels, mvars, avars, dvars, svars, pvars,
                 kvars, uvars, bvars>>

----------------------------------------------------------------------------
(* The tick rules of lib/format.ts and the price of the OrderPanel *)

\* the steps of the price that are followed
MaxTicks == 3

getTickSize(price) ==
  IF price < 2000 THEN 1
  ELSE IF price < 5000 THEN 5
  ELSE IF price < 20000 THEN 10
  ELSE IF price < 50000 THEN 50
  ELSE IF price < 200000 THEN 100
  ELSE IF price < 500000 THEN 500
  ELSE 1000

\* Math.floor(price / tick) * tick, for a price that is not negative
roundToTickDown(price) ==
  LET tick == getTickSize(price) IN (price \div tick) * tick

\* a step of one whatever the band
tickUpByOne(price) == price + 1

tickUp(price) ==
  LET tick == getTickSize(price) IN price + tick

\* Math.max(tick, price - tick)
tickDown(price) ==
  LET tick == getTickSize(price)
  IN IF price - tick > tick THEN price - tick ELSE tick

\* the prices where a band begins
BandStarts == {2000, 5000, 20000, 50000, 200000, 500000}

\* prices the panel starts from or is given: the lowest ones, and around
\* every band start the last price of the band below, the start itself, the
\* next price of the band and a price that is no multiple of its tick
PanelPrices ==
  {0, 1, 2, 3, 1000, 71500}
  \cup UNION {{b - getTickSize(b - 1), b, b + getTickSize(b), b + 1, b - 2}
               : b \in BandStarts}

\* numbers typed into the price field
TypedPrices == {0, 1999, 2004, 5009, 71549}

\* the panel as it mounts: price starts as the prop currentPrice
KInit ==
  /\ orderPrice = 0
  /\ panelPrice = 0
  /\ ticks = <<>>

\* a step of the price
Stepped(op, from, to) ==
  /\ Len(ticks) < MaxTicks
  /\ orderPrice' = to
  /\ ticks' = Append(ticks, [op |-> op, from |-> from, to |-> to])
  /\ UNCHANGED <<panelPrice, mvars, avars, dvars, svars, pvars, ovars,
                 uvars, bvars>>

\* p || currentPrice
PriceOr(p, shown) == IF p # 0 THEN p ELSE shown

\* handleTickUp
KHandleTickUp ==
  LET from == PriceOr(orderPrice, panelPrice) IN Stepped("up", from, tickUp(from))

\* handleTickDown
KHandleTickDown ==
  LET from == PriceOr(orderPrice, panelPrice)
  IN Stepped("down", from, tickDown(from))

\* the price field changes to a number
KTypePrice ==
  \E num \in TypedPrices : Stepped("typed", num, roundToTickDown(num))

TickNext == KHandleTickUp \/ KHandleTickDown \/ KTypePrice

----------------------------------------------------------------------------
(* The base URL of the push channels *)

\* a URL or a path in its parts: scheme://host:port and path, "" for a part
\* that is not there
Url(scheme, host, port, path) ==
  [scheme |-> scheme, host |-> host, port |-> port, path |-> path]

\* the empty string
NoUrl == Url("", "", "", "")

\* values of NEXT_PUBLIC_WS_URL: not defined, empty, a URL
WsUrls == {Null, Some(NoUrl), Some(Url("wss", "push.example.com", "", ""))}

\* values of NEXT_PUBLIC_API_URL: not defined, empty, https and http URLs
\* and a path on the page's origin
ApiUrls ==
  {Null, Some(NoUrl),
   Some(Url("https", "api.example.com", "", "/v1")),
   Some(Url("http", "localhost", "8000", "")),
   Some(Url("", "", "", "/api"))}

\* pages the application is opened on
Locations ==
  [protocol : {"http:", "https:"}, hostname : {"app.example.com"},
   port : {"", "3000", "8080"}]

\* nothing is set and nothing resolved; the page is served by the dev server
UInit ==
  /\ env = [NEXT_PUBLIC_WS_URL |-> Null, NEXT_PUBLIC_API_URL |-> Null]
  /\ location = [protocol |-> "http:", hostname |-> "localhost",
                 port |-> "3000"]
  /\ marketBase = Null
  /\ agentBase = Null

\* .replace(/^https:/, "wss:").replace(/^http:/, "ws:")
SwapScheme(url) ==
  [url EXCEPT !.scheme = IF @ = "https" THEN "wss"
                         ELSE IF @ = "http" THEN "ws" ELSE @]

\* the fallback of both resolvers: the page's origin with ws or wss, the
\* backend port 8000 when the page is on port 3000
SameOrigin(loc) ==
  LET protocol == IF loc.protocol = "https:" THEN "wss" ELSE "ws"
  IN IF loc.port = "3000" THEN Url(protocol, loc.hostname, "8000", "")
     ELSE Url(protocol, loc.hostname, loc.port, "")

\* getWsBaseUrl of lib/ws-url, used by connectWs of the trading store
getWsBaseUrl(e, loc) ==
  LET wsUrl == OrElse(e.NEXT_PUBLIC_WS_URL, NoUrl)
      apiUrl == OrElse(e.NEXT_PUBLIC_API_URL, NoUrl)
  IN IF wsUrl # NoUrl THEN wsUrl
     ELSE IF apiUrl # NoUrl THEN SwapScheme(apiUrl)
     ELSE SameOrigin(loc)

\* getWsBaseUrl of the agent hook
getWsBaseUrlOfHook(e, loc) ==
  LET envWs == OrElse(e.NEXT_PUBLIC_WS_URL, NoUrl)
  IN IF envWs # NoUrl THEN envWs ELSE SameOrigin(loc)

\* connectWs of the trading store resolves its base URL
UMarketResolves ==
  /\ marketBase' = Some(getWsBaseUrl(env, location))
  /\ UNCHANGED <<env, location, agentBase, mvars, avars, dvars, svars, pvars,
                 ovars, kvars, bvars>>

\* connect of the agent hook resolves its base URL
UAgentResolves ==
  /\ agentBase' = Some(getWsBaseUrlOfHook(env, location))
  /\ UNCHANGED <<env, location, marketBase, mvars, avars, dvars, svars, pvars,
                 ovars, kvars, bvars>>

UrlNext == UMarketResolves \/ UAgentResolves

----------------------------------------------------------------------------
(* The feed of agent events.  The backend sends every event once, to every  *)
(* connection that is open when it sends; the browser queues what a socket  *)
(* receives and runs ws.onmessage for each frame in the order received.     *)

\* the events the backend sends, in the order it sends them: a conversation
\* opens and two turns are spoken
Feed ==
  <<Event("conversation_start", Some("c1"),
          CHOOSE d \in ConversationStartData : TRUE),
    Event("turn_message", Some("c1"),
          Some([NoData EXCEPT !.speaker = Some("Bull"),
                              !.content = Some("buy")])),
    Event("turn_message", Some("c1"),
          Some([NoData EXCEPT !.speaker = Some("Bear"),
                              !.content = Some("sell")]))>>

\* nothing sent, nothing received
BInit ==
  /\ published = 0
  /\ inbox = [s \in AgentIds |-> <<>>]

\* the backend sends the next event of the feed on every open connection
BPublish ==
  /\ published < Len(Feed)
  /\ published' = published + 1
  /\ inbox' = [s \in AgentIds |->
                 IF agentSockets[s] = "OPEN"
                 THEN Append(inbox[s], Json(Some(Feed[published + 1])))
                 ELSE inbox[s]]
  /\ UNCHANGED <<mvars, avars, dvars, svars, pvars, ovars, kvars, uvars>>

\* the oldest frame socket s has received is handled: ws.onmessage
BDeliver ==
  \E s \in AgentIds :
    /\ agentSockets[s] = "OPEN"
    /\ inbox[s] # <<>>
    /\ LET frame == Head(inbox[s])
           store == AOnMessage(SState, mountedRef, frame)
       IN /\ SApply(store)
          /\ lastEvent' = Given("message", frame, store.threw)
          /\ arrived' = IF mountedRef
                        THEN Arrive(arrived, The(frame.value)) ELSE arrived
    /\ inbox' = [inbox EXCEPT ![s] = Tail(@)]
    /\ UNCHANGED <<published, mvars, avars, dvars, pvars, ovars, kvars, uvars>>

\* a socket's close event comes after the frames it received before it
InFlightKept == \A s \in AgentIds : inbox[s] # <<>> => agentSockets'[s] = "OPEN"

DeliveryNext ==
  \/ ANext /\ InFlightKept
  \/ BPublish
  \/ BDeliver

----------------------------------------------------------------------------
(* Specifications *)

Init ==
  /\ MInit /\ AInit /\ DInit /\ SInit /\ PInit
  /\ OInit /\ KInit /\ UInit /\ BInit

\* the market channel alone (the agent hook never mounts)
MarketInit == Init /\ ctorOk = TRUE /\ recorded = {}

MarketSpec == MarketInit /\ [][MNext]_vars

\* the market channel, keeping one of its history variables
MarketInitWanted == Init /\ ctorOk = TRUE /\ recorded = {"wanted"}

MarketWantedSpec == MarketInitWanted /\ [][MNext]_vars

MarketInitAnnounced == Init /\ ctorOk = TRUE /\ recorded = {"announced"}

MarketAnnouncedSpec == MarketInitAnnounced /\ [][MNext]_vars

MarketInitDisconnected == Init /\ ctorOk = TRUE /\ recorded = {"disconnected"}

MarketDisconnectedSpec == MarketInitDisconnected /\ [][MNext]_vars

\* the market channel with the token provider always returning a token, no
\* disconnectWs, timers that fire and promises that settle
MarketLiveSpec == MarketInit /\ [][MLiveNext]_vars /\ MFairness

\* the agent channel alone
AgentInit == Init /\ recorded = {}

AgentSpec == AgentInit /\ [][ANext]_vars

\* either channel: the two share no state, so a behaviour of both is an
\* interleaving of a behaviour of each; here the one that moves first is
\* the one that moves
ChannelsInit == Init /\ recorded = {}

ChannelsNext ==
  \/ agentLastOp = "init" /\ MNext
  \/ lastOp.op = "init" /\ ANext

ChannelsSpec == ChannelsInit /\ [][ChannelsNext]_vars

\* either channel with the frames its socket delivers and the calls that
\* fill the snapshots
FramesInit == Init /\ ctorOk = TRUE /\ recorded = {}

\* the attempts alive: a token fetch, a socket, or the timer of its close
AliveAttempts == {s \in SockIds : sockets[s].state # "none"} \cup timers

AgentAliveAttempts ==
  {s \in AgentIds : agentSockets[s] # "none"} \cup agentTimers

\* what a frame does depends on the socket it arrives on being OPEN and on
\* nothing else of the connection, so the specification follows the
\* behaviours in which one attempt is alive at a time
FramesNext ==
  \/ /\ agentLastOp = "init" /\ activeDebateId = Null
     /\ MNext \/ MDataNext
     /\ Cardinality(AliveAttempts') <= 1
  \/ /\ lastOp.op = "init"
     /\ ANext \/ AMessage \/ SSetActiveDebateId
     /\ Cardinality(AgentAliveAttempts') <= 1

FramesSpec == FramesInit /\ [][FramesNext]_vars

\* the trading page over the store, keeping the history of its calls
PageInit == Init /\ ctorOk = TRUE /\ recorded = {"settled"}

CandleSpec == PageInit /\ [][CandleNext]_vars

PriceSpec == PageInit /\ [][PriceNext]_vars

\* the trading page and its batch calls, with the interval of the batch effect
BatchSpec == PageInit /\ [][BatchNext]_vars

\* the trading page over the store
HoldingsInit == Init /\ ctorOk = TRUE /\ recorded = {}

HoldingsSpec == HoldingsInit /\ [][HoldingsNext]_vars

OrderbookSpec == HoldingsInit /\ [][OrderbookNext]_vars

\* the Orderbook component given any asks and bids
LevelInit ==
  /\ MInit /\ AInit /\ DInit /\ SInit /\ PInit
  /\ ctorOk = TRUE /\ recorded = {}
  /\ askLevels \in LevelLists
  /\ bidLevels \in {<<>>, BaseLevels}
  /\ asksWithAcc = Null
  /\ bidsWithAcc = Null
  /\ KInit /\ UInit /\ BInit

LevelSpec == LevelInit /\ [][ORender]_vars

\* the OrderPanel mounted with any price
TickInit ==
  /\ MInit /\ AInit /\ DInit /\ SInit /\ PInit /\ OInit /\ UInit /\ BInit
  /\ ctorOk = TRUE /\ recorded = {}
  /\ panelPrice \in PanelPrices
  /\ orderPrice = panelPrice
  /\ ticks = <<>>

TickSpec == TickInit /\ [][TickNext]_vars

\* both channels under any build and on any page
UrlInit ==
  /\ MInit /\ AInit /\ DInit /\ SInit /\ PInit /\ OInit /\ KInit /\ BInit
  /\ ctorOk = TRUE /\ recorded = {}
  /\ env \in [NEXT_PUBLIC_WS_URL : WsUrls, NEXT_PUBLIC_API_URL : ApiUrls]
  /\ location \in Locations
  /\ marketBase = Null
  /\ agentBase = Null

UrlSpec == UrlInit /\ [][UrlNext]_vars

\* the agent channel with the backend's feed
DeliveryInit == Init /\ ctorOk = TRUE /\ recorded = {}

DeliverySpec == DeliveryInit /\ [][DeliveryNext]_vars

\* the agent store alone, given any sequence of events
StoreInit == Init /\ ctorOk = TRUE /\ recorded = {}

StoreSpec == StoreInit /\ [][SNext]_vars

----------------------------------------------------------------------------
(* Properties of the two channels *)

OpenMarketSockets == {s \in SockIds : sockets[s].state = "OPEN"}

OpenAgentSockets == {s \in AgentIds : agentSockets[s] = "OPEN"}

\* attempts whose token fetch has not resolved or whose socket is CONNECTING
PendingAttempts == {s \in SockIds : sockets[s].state \in {"TOKEN", "CONNECTING"}}

\* C1: at no time does more than one market-channel socket exist in the
\* OPEN state, whatever the interleaving of connectWs, setSelectedStock,
\* disconnectWs, token resolutions, socket events and timer firings.
C1_AtMostOneOpenMarketSocket == Cardinality(OpenMarketSockets) <= 1

\* C2: at no time does more than one agent-channel socket exist in the OPEN
\* state, across mount, unmount and re-mount of the hook.
C2_AtMostOneOpenAgentSocket == Cardinality(OpenAgentSockets) <= 1

\* C3: at most one market connection attempt (token fetch unresolved, or
\* socket CONNECTING) is pending at any time.
C3_AtMostOnePendingAttempt == Cardinality(PendingAttempts) <= 1

\* C4: per channel at most one reconnect timer is pending at any time, and
\* an unintentional close leaves exactly one pending.
C4_AtMostOneReconnectTimer ==
  /\ Cardinality(timers) <= 1
  /\ Cardinality(agentTimers) <= 1
  /\ lastOp.op = "drop" => Cardinality(timers) = 1
  /\ (agentLastOp = "drop" /\ mountedRef) => Cardinality(agentTimers) = 1

\* a socket is constructed (it becomes CONNECTING) or opens in this step
SocketCreatedOrOpened ==
  \E s \in SockIds :
    /\ sockets'[s].state \in {"CONNECTING", "OPEN"}
    /\ sockets'[s].state # sockets[s].state

\* C5: after disconnectWs no reconnect timer is pending, and no socket is
\* created or opened until connectWs or setSelectedStock is called again,
\* also when a token fetch or an attempt was in flight at the call.
\* (a property of the behaviours that record "disconnected")
C5_DisconnectIsFinal ==
  [][disconnected' => /\ timers' = {}
                      /\ disconnected => ~SocketCreatedOrOpened]_vars

\* C6: every unintentional close is eventually followed by the creation of
\* a new socket: on the agent channel while the hook stays mounted, on the
\* market channel while a focused code or a bulk set exists (the token
\* provider returning a token every time, disconnectWs not being called).
C6_ReconnectsEventually ==
  /\ [](lastOp.op = "drop" /\ Desired(MState) # <<>>
          => <>(lastOp.op = "token" \/ Desired(MState) = <<>>))
  /\ [](agentLastOp = "drop" /\ mountedRef
          => <>(agentLastOp = "socket" \/ ~mountedRef))

\* C7: the subscribe message sent when a socket opens that the timer of an
\* unintentional close brought about carries the code set desired before
\* that close.
\* (a property of the behaviours that record "wanted")
C7_ResubscribesDesiredSet ==
  lastOp.op = "open" =>
    \A i \in 1..Len(sent) :
      \A w \in sockets[sent[i].to].wanted : sent[i].codes = w

\* the subscription set of a connectWs call: the bulk set passed or stored,
\* else the code passed
CallSubscription(call, stored) ==
  IF call.codes # <<>> THEN call.codes
  ELSE IF stored # <<>> THEN stored
  ELSE IF call.code # NoCode THEN <<call.code>> ELSE <<>>

\* this step is a connectWs call made while _ws is OPEN
ConnectWsWhileOpen ==
  /\ lastOp'.op = "connectWs"
  /\ ws # 0
  /\ sockets[ws].state = "OPEN"

AnnouncedOrToBe ==
  announced
    \cup Range(Desired(MState))
    \cup UNION {Range(sockets[s].codes) : s \in SockIds}

\* C9: after setSelectedStock({code: c}) while a bulk set is stored, the
\* codes announced on the live socket or to be announced on the next
\* (re)connect contain c and every code of the bulk set.
\* (a property of the behaviours that record "announced")
C9_FocusJoinsBulkSet ==
  (lastOp.op = "setSelectedStock" /\ selectedStock # NoCode /\ allCodes # <<>>)
    => ({selectedStock} \cup Range(allCodes)) \subseteq AnnouncedOrToBe

RECURSIVE Pow2(_)
Pow2(n) == IF n = 0 THEN 1 ELSE 2 * Pow2(n - 1)

\* C10: the reconnect timer scheduled after the N-th consecutive close of
\* the agent socket with no open in between uses min(1000 * 2^(N-1), 30000)
\* ms, and an open resets the next delay to 1000 ms.
C10_AgentBackoff ==
  /\ \A t \in agentTimers :
       timerCloses[t] > 0 =>
         timerDelay[t] = Min(1000 * Pow2(timerCloses[t] - 1), 30000)
  /\ (agentLastOp = "open" /\ mountedRef) => reconnectDelay = 1000

\* a timer follows the sixth close in a row: the cap applies
C10_Witness_Capped ==
  \E t \in agentTimers : timerCloses[t] >= 6 /\ timerDelay[t] = 30000

\* a step that ends one attempt of the market store and does nothing else
MarketAttemptAbandoned ==
  /\ \E s \in SockIds :
       /\ sockets[s].state = "TOKEN"
       /\ sockets' = [sockets EXCEPT ![s] = NoSocket]
  /\ timers' = timers
  /\ reconnectTimerM' = reconnectTimerM
  /\ sent' = <<>>
  /\ UNCHANGED <<wsConnected, ws, selectedStock, allCodes, dvars>>

\* a step that ends one attempt of the agent hook and does nothing else
AgentAttemptAbandoned ==
  /\ \E s \in AgentIds :
       /\ agentSockets[s] = "TOKEN"
       /\ agentSockets' = [agentSockets EXCEPT ![s] = "none"]
  /\ agentTimers' = agentTimers
  /\ reconnectTimer' = reconnectTimer
  /\ UNCHANGED <<agentConnected, wsRef, reconnectDelay, pingTimer, pings,
                 svars>>

\* C11: an attempt whose token fetch rejects or yields null (either
\* channel) ends there: it creates no socket, schedules no reconnect timer
\* and starts no token fetch, and the connected flag, the stored socket and
\* every data snapshot keep their values.
C11_TokenFailureAbandons ==
  [][/\ (lastOp'.op = "notoken") => MarketAttemptAbandoned
     /\ (agentLastOp' = "notoken") => AgentAttemptAbandoned]_vars

\* a token fetch of the market store has failed while a reconnect timer of
\* an earlier close is pending
C11_Witness_TokenFailed ==
  /\ lastOp.op = "notoken"
  /\ timers # {}
  /\ \A s \in SockIds : sockets[s].state = "none"

\* the step is the message handler of either channel, given a text that is
\* not JSON
MalformedFrameStep ==
  /\ lastOp'.op = "message" \/ agentLastOp' = "message"
  /\ lastEvent' # Null
  /\ The(lastEvent').op = "message"
  /\ ~The(lastEvent').event.json

\* C12: an inbound frame that is not valid JSON (either channel) changes no
\* state: the sockets, the connected flag, the reconnect timer and every
\* snapshot (price, instrument list, orderbook, holdings, account,
\* conversations) keep their values, and no exception leaves the handler.
C12_MalformedFrameIgnored ==
  [][MalformedFrameStep =>
       /\ UNCHANGED <<sockets, wsConnected, ws, reconnectTimerM, timers,
                      intentionalClose, selectedStock, dvars>>
       /\ UNCHANGED <<agentSockets, agentConnected, wsRef, reconnectTimer,
                      agentTimers, pingTimer, pings, liveConversations,
                      activeDebateId>>
       /\ ~The(lastEvent').escaped]_vars

\* the market socket has delivered a text that is not JSON while every
\* snapshot of the store was filled
C12_Witness_MalformedFrame ==
  /\ lastOp.op = "message"
  /\ lastEvent = Given("message", NotJson, FALSE)
  /\ wsConnected
  /\ stocks # <<>> /\ holdings # <<>> /\ account # Null
  /\ currentPrice # Null /\ orderbook.asks # <<>>

----------------------------------------------------------------------------
(* Properties of the agent store *)

Held(c) == MapHas(liveConversations, c)

Conv(c) == MapGet(liveConversations, c)

\* the same after the step
HeldAfter(c) == MapHas(liveConversations', c)

ConvAfter(c) == MapGet(liveConversations', c)

\* the step is a call of handleAgentEvent ...
Handling == lastEvent' # Null /\ The(lastEvent').op = "handleAgentEvent"

\* ... with this event
Handled == The(lastEvent').event

\* ... which is an end event for a conversation id
HandlingEnd ==
  /\ Handling
  /\ Handled.type \in {"conversation_end", "meeting_end"}
  /\ Handled.conversation_id # Null

\* the events of conversation c
EventsFor(c) == {e \in AgentEvents : e.conversation_id = Some(c)}

EndEventsFor(c) ==
  {e \in EventsFor(c) : e.type \in {"conversation_end", "meeting_end"}}

StoreUnchanged == UNCHANGED <<liveConversations, activeDebateId>>

\* C13: a conversation whose status is completed is completed in every
\* later state: the status never moves back to active.
C13_CompletedStaysCompleted ==
  [][\A c \in ConvIds :
       (Held(c) /\ Conv(c).status = "completed")
         => (Held(c)' /\ Conv(c)'.status = "completed")]_vars

\* C14: a turn_message is appended only to a conversation that exists and
\* is not completed: once a conversation is completed (an end event has
\* been handled for it) no later event changes its messages.
C14_CompletedIsSealed ==
  [][\A c \in ConvIds :
       (Held(c) /\ Conv(c).status = "completed")
         => (Held(c)' /\ Conv(c)'.messages = Conv(c).messages)]_vars

\* C15: an end event for a conversation that is already completed changes
\* nothing: status, conclusion and messages keep their values and the
\* active-debate pointer is not cleared again.
C15_SecondEndIsNoOp ==
  [][(/\ HandlingEnd
      /\ Held(The(Handled.conversation_id))
      /\ Conv(The(Handled.conversation_id)).status = "completed")
       => StoreUnchanged]_vars

\* C16: a turn_message whose conversation_id is not held by the store
\* leaves the store unchanged (no conversation is created) and raises no
\* error.
C16_TurnForUnknownIdIgnored ==
  [][(/\ Handling
      /\ Handled.type = "turn_message"
      /\ Handled.conversation_id # Null => ~Held(The(Handled.conversation_id)))
       => (StoreUnchanged /\ ~The(lastEvent').escaped)]_vars

\* a turn message for c1 has been handled while the store held c2 alone
C16_Witness_UnknownTurn ==
  /\ \E e \in EventsFor("c1") :
       e.type = "turn_message" /\ lastEvent = Given("handleAgentEvent", e, FALSE)
  /\ ~Held("c1")
  /\ Held("c2")

\* C17: the set of conversation ids held in liveConversations never
\* shrinks: no event and no store action removes a conversation, a
\* completed one included.
C17_ConversationsNeverRemoved ==
  [][MapKeys(liveConversations) \subseteq MapKeys(liveConversations')]_vars

\* an end event has been handled for c1 and both conversations are held
C17_Witness_CompletedKept ==
  /\ \E e \in EndEventsFor("c1") : lastEvent = Given("handleAgentEvent", e, FALSE)
  /\ Held("c1") /\ Conv("c1").status = "completed"
  /\ Held("c2")

\* the types the switch has a case for
HandledTypes ==
  {"conversation_start", "meeting_start", "turn_message", "conversation_end",
   "meeting_end"}

\* C18: an event without a conversation_id, a pong event and an event of
\* an unrecognized type each leave liveConversations and activeDebateId
\* unchanged.
C18_OtherEventsIgnored ==
  [][(/\ Handling
      /\ \/ Handled.conversation_id = Null
         \/ Handled.type = "pong"
         \/ Handled.type \notin HandledTypes)
       => StoreUnchanged]_vars

\* an event of an unknown type has been handled for the conversation the
\* active-debate pointer points at
C18_Witness_UnknownType ==
  /\ lastEvent = Given("handleAgentEvent",
                       Event("agent_state", Some("c1"), Null), FALSE)
  /\ Held("c1")
  /\ activeDebateId = Some("c1")

\* C19: an end event for a conversation the store holds sets activeDebateId
\* to null if and only if activeDebateId is that conversation's id, and
\* leaves it unchanged otherwise; an end event for an id the store does not
\* hold changes nothing.
C19_EndClearsOwnPointerOnly ==
  [][HandlingEnd =>
       IF Held(The(Handled.conversation_id))
       THEN /\ (activeDebateId' = Null) <=>
                 (activeDebateId = Handled.conversation_id
                    \/ activeDebateId = Null)
            /\ activeDebateId # Handled.conversation_id
                 => activeDebateId' = activeDebateId
       ELSE StoreUnchanged]_vars

\* c1 has been ended while the pointer pointed at c2, and points there still
C19_Witness_OtherPointerKept ==
  /\ \E e \in EndEventsFor("c1") : lastEvent = Given("handleAgentEvent", e, FALSE)
  /\ Held("c1") /\ Conv("c1").status = "completed"
  /\ activeDebateId = Some("c2")

\* C20: meeting_start with total_rounds r creates an active conversation
\* with maxTurns = 4 * r (8 without total_rounds) and no messages; the
\* conversation then holds exactly the turn messages handled for its id
\* since, in the order of arrival; meeting_end with conclusion x makes it
\* completed with conclusion x.
C20_MeetingLifecycle ==
  [][/\ (Handling /\ Handled.type = "meeting_start"
           /\ Handled.conversation_id # Null) =>
          LET c == The(Handled.conversation_id)
              r == Field(Handled.data, "total_rounds")
          IN /\ HeldAfter(c)
             /\ ConvAfter(c).status = "active"
             /\ ConvAfter(c).messages = <<>>
             /\ ConvAfter(c).maxTurns = IF r = Null THEN 8 ELSE 4 * The(r)
     /\ \A c \in ConvIds :
          (HeldAfter(c) /\ ConvAfter(c).meetingType # Null) =>
            (arrived'[c] # Null /\ ConvAfter(c).messages = The(arrived'[c]))
     /\ (HandlingEnd /\ Handled.type = "meeting_end"
           /\ Held(The(Handled.conversation_id))
           /\ Field(Handled.data, "conclusion") # Null) =>
          LET c == The(Handled.conversation_id)
          IN /\ ConvAfter(c).status = "completed"
             /\ ConvAfter(c).conclusion = Field(Handled.data, "conclusion")]_vars

\* a meeting of three rounds has taken two different turns and has ended
\* with a conclusion
C20_Witness_MeetingEnded ==
  /\ \E e \in EndEventsFor("c1") :
       e.type = "meeting_end" /\ lastEvent = Given("handleAgentEvent", e, FALSE)
  /\ Held("c1")
  /\ Conv("c1").maxTurns = 12
  /\ Len(Conv("c1").messages) = 2
  /\ Conv("c1").messages[1] # Conv("c1").messages[2]
  /\ Conv("c1").status = "completed"
  /\ Conv("c1").conclusion = Some("hold")

----------------------------------------------------------------------------
(* Properties of the trading page *)

\* the call that settles in the step
Settling == lastFetch' # Null

Settled == The(lastFetch').fetch

\* the step applies something to the candle state
CandlesApplied == candleData' # candleData \/ candleError' # candleError

\* C21: whatever the order of selections, timeframe changes and
\* resolutions, a candle call changes candleData or candleError only if the
\* code (and timeframe) it was started for is still the selected one and
\* the effect run that started it has not been cleaned up; a stale
\* response changes nothing.
C21_StaleCandlesDiscarded ==
  [][(/\ lastOp'.op \in {"candles", "fetchToken"}
      /\ Settling
      /\ CandlesApplied)
     => /\ Settled.kind = "candles"
        /\ Settled.code = selectedStock
        /\ Settled.timeframe = timeframe
        /\ ~Settled.cancelled]_vars

\* candles arrived for a code that is no longer selected, and were dropped
C21_Witness_StaleDropped ==
  /\ lastOp.op = "candles"
  /\ lastFetch # Null
  /\ The(lastFetch).outcome = "data"
  /\ The(lastFetch).fetch.code # selectedStock
  /\ The(lastFetch).fetch.cancelled
  /\ candleData # Candles(The(lastFetch).fetch.code,
                          The(lastFetch).fetch.timeframe)

\* the step is the settling of a call for the price of one instrument
PriceSettling == lastOp'.op = "price" /\ Settling

\* C22: a response to the REST call for the price of one instrument whose
\* code is not the focused code when it arrives is discarded: currentPrice
\* stays as it is.
C22_StalePriceDiscarded ==
  [][(PriceSettling /\ Settled.code # selectedStock)
     => currentPrice' = currentPrice]_vars

\* C23: a REST response never replaces a currentPrice that a push event
\* wrote after the request of the response was sent.
C23_RestNeverOverwritesFresherPush ==
  [][(lastOp'.op \in {"price", "batch"} /\ Settling /\ Settled.pushed)
     => currentPrice' = currentPrice]_vars

\* the price currentPrice holds, 0 when it is null
PriceHeld(cp) == IF cp = Null THEN 0 ELSE The(cp).price

\* C24: a REST price for the focused instrument that equals the price of
\* the current currentPrice leaves every field of it as it is; one that
\* differs replaces currentPrice with the REST price.
C24_EqualRestPriceChangesNothing ==
  [][(PriceSettling /\ Settled.code = selectedStock)
     => /\ (currentPrice # Null /\ PriceHeld(currentPrice') = PriceHeld(currentPrice))
           => currentPrice' = currentPrice
        /\ currentPrice' # currentPrice
           => /\ The(currentPrice').code = selectedStock
              /\ The(currentPrice').price = Quote(selectedStock)]_vars

\* the totals of an account are those of the holdings
TotalsDerived(acct, list) ==
  /\ acct.totalAsset = acct.balance + SumTotalValue(list)
  /\ acct.totalProfit = acct.totalAsset - acct.initialCapital

\* C25: after every operation that changes the holdings list or the price
\* of a holding (a pushed price_update, the batch price sync, the portfolio
\* load), a non-null account has totalAsset = balance + the sum of the
\* holdings' totalValue and totalProfit = totalAsset - initialCapital.
C25_AccountTotalsDerived ==
  [][(holdings' # holdings /\ account' # Null)
     => TotalsDerived(The(account'), holdings')]_vars

\* the batch sync has repriced the holdings of a loaded account
C25_Witness_BatchRepriced ==
  /\ lastOp.op = "batch"
  /\ account # Null
  /\ Len(holdings) = 2
  /\ holdings[1].currentPrice = 71000
  /\ holdings[2].currentPrice = 50500
  /\ The(account).totalAsset = 1962500

\* the step handles a pushed price_update that carries data
PricePushed ==
  /\ lastOp'.op = "message"
  /\ lastEvent' # Null
  /\ The(lastEvent').event.json
  /\ The(lastEvent').event.value # Null
  /\ The(The(lastEvent').event.value).type = "price_update"
  /\ The(The(lastEvent').event.value).data # Null

PushedTick == The(The(The(lastEvent').event.value).data)

\* the holding as the claim has it after a push of the price
Repriced(h, price) ==
  [h EXCEPT !.currentPrice = price,
            !.totalValue = price * h.quantity,
            !.profit = price * h.quantity - h.avgPrice * h.quantity,
            !.profitRate =
               IF h.avgPrice * h.quantity > 0
               THEN RoundRate(price * h.quantity - h.avgPrice * h.quantity,
                              h.avgPrice * h.quantity)
               ELSE 0]

\* C26: a price_update leaves every holding of its code with currentPrice =
\* the pushed price, totalValue = currentPrice * quantity, profit =
\* totalValue - avgPrice * quantity and profitRate = the rounded percentage
\* of profit over cost (0 when the cost is 0); quantity and avgPrice stay,
\* and the holdings of other codes are not touched.
C26_HoldingFollowsPush ==
  [][PricePushed
     => /\ Len(holdings') = Len(holdings)
        /\ \A i \in 1..Len(holdings) :
             holdings'[i] =
               IF holdings[i].stockCode = PushedTick.stock_code
               THEN Repriced(holdings[i], PushedTick.price)
               ELSE holdings[i]]_vars

\* a push has repriced the holding of 005930 and left the other one
C26_Witness_HoldingRepriced ==
  /\ lastOp.op = "message"
  /\ Len(holdings) = 2
  /\ holdings[1].currentPrice = 71500
  /\ holdings[1].profit = 35000
  /\ holdings[2].currentPrice = 50000

\* C27: a price_update for a code that is not the focused one (or with no
\* focus) leaves currentPrice as it is and still updates the list entry and
\* the holding of its code; one for the focused code replaces currentPrice
\* as a whole: no field of the value it held survives.
C27_OtherCodeLeavesFocusedPrice ==
  [][PricePushed
     => IF selectedStock # NoCode /\ PushedTick.stock_code = selectedStock
        THEN currentPrice' =
               UpdateCurrentPrice([DState EXCEPT !.currentPrice = Null],
                                  PushedTick).currentPrice
        ELSE /\ currentPrice' = currentPrice
             /\ \A i \in 1..Len(stocks) :
                  stocks[i].code = PushedTick.stock_code
                  => stocks'[i].currentPrice = PushedTick.price
             /\ \A i \in 1..Len(holdings) :
                  holdings[i].stockCode = PushedTick.stock_code
                  => holdings'[i].currentPrice = PushedTick.price]_vars

\* a push for 035720 while 005930 is focused: the focused price is the one
\* pushed for 005930 before, the list entry and the holding of 035720 moved
C27_Witness_OtherCodePushed ==
  /\ lastOp.op = "message"
  /\ selectedStock = "005930"
  /\ lastEvent # Null
  /\ The(The(The(lastEvent).event.value).data).stock_code = "035720"
  /\ currentPrice # Null
  /\ The(currentPrice).code = "005930"
  /\ stocks[2].currentPrice = 50500
  /\ Len(holdings) = 2
  /\ holdings[2].currentPrice = 50500

\* C28: after a price_update for the focused instrument currentPrice.price
\* is the pushed price and currentPrice.prevClose is the pushed price minus
\* the pushed change, whatever the REST bootstrap had stored.
C28_PushSetsPriceAndPrevClose ==
  [][(/\ PricePushed
      /\ selectedStock # NoCode
      /\ PushedTick.stock_code = selectedStock)
     => /\ currentPrice' # Null
        /\ The(currentPrice').price = PushedTick.price
        /\ PushedTick.change # Null
           => The(currentPrice').prevClose =
                PushedTick.price - The(PushedTick.change)]_vars

\* REST stored 71,000 (the list entry still carries its change rate), then
\* 71,500 with change 500 was pushed: price 71,500, previous close 71,000
C28_Witness_PushAfterRest ==
  /\ lastOp.op = "message"
  /\ selectedStock = "005930"
  /\ currentPrice # Null
  /\ The(currentPrice).price = 71500
  /\ The(currentPrice).prevClose = 71000
  /\ stocks[1].changeRate = Some(142)

\* the step handles a pushed orderbook_update that carries data
OrderbookPushed ==
  /\ lastOp'.op = "message"
  /\ lastEvent' # Null
  /\ The(lastEvent').event.json
  /\ The(lastEvent').event.value # Null
  /\ The(The(lastEvent').event.value).type = "orderbook_update"
  /\ The(The(lastEvent').event.value).data # Null

\* C29: an orderbook_update is applied only if its stock_code is the
\* focused code, and then the stored order book is the asks and bids of the
\* message, replaced as a whole; otherwise the order book is unchanged.
C29_OrderbookOfFocusOnly ==
  [][OrderbookPushed
     => IF selectedStock # NoCode /\ PushedTick.stock_code = selectedStock
        THEN /\ PushedTick.asks # Null
                => orderbook'.asks = The(PushedTick.asks)
             /\ PushedTick.bids # Null
                => orderbook'.bids = The(PushedTick.bids)
             /\ DOMAIN orderbook' = {"asks", "bids"}
        ELSE orderbook' = orderbook]_vars

\* the book of 005930 is stored, 035720 is focused, and a book of 005930
\* has just been pushed and dropped
C29_Witness_OtherBookDropped ==
  /\ lastOp.op = "message"
  /\ selectedStock = "035720"
  /\ lastEvent # Null
  /\ The(The(The(lastEvent).event.value).data).stock_code = "005930"
  /\ The(The(The(lastEvent).event.value).data).asks
       = Some(<<[price |-> 71600, volume |-> 1]>>)
  /\ Len(orderbook.asks) = 2

----------------------------------------------------------------------------
(* Properties of the Orderbook component *)

\* the levels of a list at a price or above
AtOrAbove(list, price) == {i \in 1..Len(list) : list[i].price >= price}

\* the occurrences of a level in a list
Occurrences(list, price, volume) ==
  {i \in 1..Len(list) : list[i].price = price /\ list[i].volume = volume}

\* out is what the claim makes of the levels given
Reconciled(given, out) ==
  /\ Len(out) = Min(DEPTH, Len(given))
  /\ \A i \in 1..(Len(out) - 1) : out[i].price >= out[i + 1].price
  /\ \A j \in 1..Len(given) :
       /\ Cardinality(AtOrAbove(out, given[j].price))
            = Min(DEPTH, Cardinality(AtOrAbove(given, given[j].price)))
       /\ Cardinality(Occurrences(out, given[j].price, given[j].volume))
            <= Cardinality(Occurrences(given, given[j].price, given[j].volume))
  /\ \A i \in 1..Len(out) :
       /\ Occurrences(given, out[i].price, out[i].volume) # {}
       /\ out[i].accumulatedVolume
            = (IF i = 1 THEN 0 ELSE out[i - 1].accumulatedVolume) + out[i].volume
  /\ \A i \in 1..(Len(out) - 1) :
       out[i].accumulatedVolume <= out[i + 1].accumulatedVolume

\* C30: for any list of n ask (or bid) levels the levels shown are the
\* min(10, n) highest-priced ones in descending order of price, each with
\* the running sum of the volumes in that order, which never decreases.
C30_TopLevelsWithRunningVolume ==
  /\ asksWithAcc # Null => Reconciled(askLevels, The(asksWithAcc))
  /\ bidsWithAcc # Null => Reconciled(bidLevels, The(bidsWithAcc))

\* twelve asks given, ten shown
C30_Witness_TwelveAsks ==
  /\ Len(askLevels) = MaxLevels
  /\ asksWithAcc # Null
  /\ Len(The(asksWithAcc)) = DEPTH
  /\ The(asksWithAcc)[1].price > The(asksWithAcc)[DEPTH].price

----------------------------------------------------------------------------
(* Properties of the tick rules *)

\* a price that is a multiple of the tick of its band
TickAligned(price) == price % getTickSize(price) = 0

\* the steps up and the steps down that were taken
StepsUp == {i \in 1..Len(ticks) : ticks[i].op = "up"}
StepsDown == {i \in 1..Len(ticks) : ticks[i].op = "down"}

\* C31: one tick up from a price that is a multiple of its tick, next to a
\* band start or not, gives a price that rounding down leaves as it is; one
\* tick down from any price gives at least the tick of that price, so
\* never a price of zero or below.
C31_TickUpAlignedTickDownPositive ==
  /\ \A i \in StepsUp :
       TickAligned(ticks[i].from) => roundToTickDown(ticks[i].to) = ticks[i].to
  /\ \A i \in StepsDown :
       /\ ticks[i].to >= getTickSize(ticks[i].from)
       /\ ticks[i].to > 0

\* C31 as stated: one tick up from every price gives a price that rounding
\* down leaves as it is, and one tick down gives at least the tick.
C31_TickUpOfAnyPriceAligned ==
  /\ \A i \in StepsUp : roundToTickDown(ticks[i].to) = ticks[i].to
  /\ \A i \in StepsDown : ticks[i].to >= getTickSize(ticks[i].from)

\* a step up into the next band and a step down that stops at the tick
C31_Witness_StepIntoNextBand ==
  /\ Len(ticks) >= 2
  /\ ticks[1] = [op |-> "up", from |-> 4995, to |-> 5000]
  /\ ticks[2].op = "down"

\* step i and the step after it, which starts where step i ended
RoundTrip(i, first, second) ==
  /\ ticks[i].op = first
  /\ ticks[i + 1].op = second
  /\ ticks[i + 1].from = ticks[i].to

\* C40: from a price of 2 or more that is a multiple of its tick, one tick
\* up and then one tick down, or one down and then one up, ends at the
\* price it started from, also across a band start.
C40_TickRoundTrip ==
  \A i \in 1..(Len(ticks) - 1) :
    (/\ RoundTrip(i, "up", "down") \/ RoundTrip(i, "down", "up")
     /\ ticks[i].from >= 2
     /\ TickAligned(ticks[i].from))
    => ticks[i + 1].to = ticks[i].from

----------------------------------------------------------------------------
(* Properties of the base URL *)

\* a value of the build that is set: defined and not empty
IsSet(value) == value # Null /\ value # Some(NoUrl)

\* the base URL by the precedence: the override, else the API base with ws
\* for http and wss for https, else the page's origin
ByPrecedence ==
  IF IsSet(env.NEXT_PUBLIC_WS_URL) THEN The(env.NEXT_PUBLIC_WS_URL)
  ELSE IF IsSet(env.NEXT_PUBLIC_API_URL)
  THEN SwapScheme(The(env.NEXT_PUBLIC_API_URL))
  ELSE SameOrigin(location)

\* C32: for every override, API base, page protocol and page port, the base
\* URL the market channel resolves and the one the agent channel resolves
\* are the same value: the override if set, else the API base with http or
\* https swapped to ws or wss, else the page's origin with the protocol
\* swapped and port 8000 when the page is on port 3000.
C32_BothChannelsResolveAlike ==
  /\ marketBase # Null => The(marketBase) = ByPrecedence
  /\ agentBase # Null => The(agentBase) = ByPrecedence
  /\ (marketBase # Null /\ agentBase # Null) => marketBase = agentBase

\* the market channel alone follows the precedence
MarketBaseByPrecedence == marketBase # Null => The(marketBase) = ByPrecedence

----------------------------------------------------------------------------
(* Properties of the keep-alive *)

\* C33: whenever an agent-channel socket is OPEN and the hook is mounted,
\* the ping interval started when that socket opened is still active, so a
\* ping is sent on it every 25 s for as long as it stays open.
C33_OpenSocketIsPinged ==
  \A s \in AgentIds :
    (mountedRef /\ agentSockets[s] = "OPEN") => s \in pings

----------------------------------------------------------------------------
(* Properties of the market channel's handle *)

\* a step of setSelectedStock(null)
Deselected == lastOp'.op = "setSelectedStock" /\ selectedStock' = NoCode

\* C34: setSelectedStock(null) closes no market socket, neither cancels nor
\* schedules a reconnect timer, sends no message and leaves the stored
\* subscription set as it was.
C34_DeselectKeepsChannel ==
  [][Deselected =>
       /\ sockets' = sockets
       /\ ws' = ws
       /\ wsConnected' = wsConnected
       /\ intentionalClose' = intentionalClose
       /\ timers' = timers
       /\ reconnectTimerM' = reconnectTimerM
       /\ sent' = <<>>
       /\ allCodes' = allCodes]_vars

\* the selection was cleared while the socket is OPEN and a reconnect timer
\* of an earlier socket is pending
C34_Witness_DeselectedWhileOpen ==
  /\ lastOp.op = "setSelectedStock"
  /\ selectedStock = NoCode
  /\ ws # 0
  /\ sockets[ws].state = "OPEN"
  /\ wsConnected
  /\ timers # {}

\* C35: when the open callback of a market socket has run, wsConnected is
\* true and exactly one subscribe message was sent, on that socket, with the
\* store's subscription set of that moment: the stored bulk set if it is
\* not empty, otherwise the focused code.
C35_OpenAnnouncesCurrentSet ==
  lastOp.op = "open" =>
    /\ wsConnected
    /\ Len(sent) = 1
    /\ sent[1].to = ws
    /\ sockets[ws].state = "OPEN"
    /\ sent[1].codes = Desired(MState)

\* a step of disconnectWs()
Disconnecting == lastOp'.op = "disconnectWs"

\* the fields of the store, the sockets and the timers
Channel ==
  <<selectedStock, wsConnected, ws, reconnectTimerM, intentionalClose,
    allCodes, tokenGetter, sockets, timers, dvars>>

\* C36: disconnectWs called while the store holds no socket and no reconnect
\* timer changes nothing and throws nothing; this is so for the second of
\* two calls in a row.
C36_DisconnectWsIdempotent ==
  [][/\ (Disconnecting /\ ws = 0 /\ reconnectTimerM = 0)
          => (Channel' = Channel /\ sent' = <<>>)
     /\ (Disconnecting /\ lastOp.op = "disconnectWs")
          => (Channel' = Channel /\ sent' = <<>>)]_vars

\* disconnectWs ran last, after the channel had been in use, and closed
\* nothing: no socket is left closing and no close is marked intentional
C36_Witness_DisconnectedHoldingNothing ==
  /\ lastOp.op = "disconnectWs"
  /\ ws = 0
  /\ reconnectTimerM = 0
  /\ timers = {}
  /\ \A s \in SockIds : sockets[s].state = "none"
  /\ ~intentionalClose
  /\ allCodes # <<>>

----------------------------------------------------------------------------
(* Properties of the feed *)

\* the place of a turn in the feed
FeedPlace(data) ==
  CHOOSE k \in 1..Len(Feed) : Feed[k].type = "turn_message" /\ Feed[k].data = data

\* C37: an event the backend sends once is applied at most once, and events
\* are applied in the order sent, whatever the connects, re-mounts and
\* reconnects: the messages of a conversation are turns of the feed, each
\* at most once, in the order of the feed.
C37_FramesAppliedAtMostOnceInOrder ==
  Held("c1") =>
    \A i, j \in 1..Len(Conv("c1").messages) :
      i < j => FeedPlace(Conv("c1").messages[i])
                 < FeedPlace(Conv("c1").messages[j])

----------------------------------------------------------------------------
(* Properties of the stored handle and of the debate pointer *)

\* C38: in every state of the trading store, wsConnected is true exactly
\* when the handle _ws refers to a socket that is OPEN, whatever the order
\* of connectWs, disconnectWs and the open and close callbacks of old and
\* new sockets.
C38_ConnectedIffHandleOpen ==
  wsConnected <=> (ws # 0 /\ sockets[ws].state = "OPEN")

\* C39: in every state of the agent store, activeDebateId is null or names
\* no conversation whose status is completed, whatever the order of
\* setActiveDebateId and the pushed start and end events.
C39_ActiveDebateNotCompleted ==
  \A c \in ConvIds :
    activeDebateId = Some(c) => ~(Held(c) /\ Conv(c).status = "completed")

====
